---- MODULE Spec2Model ----
(***************************************************************************)
(* BaseStakingRewards (contracts/BaseStakingRewards.sol): pooled staking   *)
(* with an accumulated-reward-per-share accumulator.  Every external       *)
(* function of the contract is one action; a call that reverts leaves no   *)
(* trace in the state, so an action is enabled exactly when the call       *)
(* completes.  The ERC20 tokens are external: a transfer the sender's      *)
(* balance covers moves the tokens; one it does not cover reverts, or, for *)
(* a token that reports failure by its return value, returns false (the    *)
(* contract never reads the returned flag).                                *)
(***************************************************************************)
EXTENDS Integers, Sequences, FiniteSets

VARIABLES now, poolInfo, userInfo, balance, lenient, inCall, audit,
          pools, userPositions, poolStrategies, poolCount, totalValueLocked,
          paused, held, observed,
          multipliers, stakingMultipliers, reputationScores, userContributions,
          ether

\* the storage of BaseLiquidityManager (BaseLiquidityManager.sol, lines 42-47),
\* the token balances its calls move, and the record of what was added,
\* removed and locked
liquidityManager ==
    <<pools, userPositions, poolStrategies, poolCount, totalValueLocked,
      paused, held, observed>>

\* the storage of RewardMultipliers (BaseLiquidityManager.sol, lines 322-325)
\* and the ether its calls move
rewardMultipliers ==
    <<multipliers, stakingMultipliers, reputationScores, userContributions, ether>>

\* the storage of BaseStakingRewards, its tokens and its call frame
stakingRewards == <<poolInfo, userInfo, balance, lenient, inCall, audit>>

vars == <<now, stakingRewards, liquidityManager, rewardMultipliers>>

---------------------------------------------------------------------------
(* Bounds of the model *)

MaxTime == 2
MaxPools == 1
MaxAmount == 2
MaxRate == 1
MaxTotalStaked == 3
MaxFund == 1
InitialBalance == 2
MinStake == 1
LockPeriod == 1

Users == {"u1", "u2"}
Owner == "owner"
Engine == "engine"
Tokens == {"T1", "T2"}
StakeTokens == {"T1"}
RewardTokens == {"T1", "T2"}
Holders == Users \cup {Engine}
Callers == Users \cup {Owner}

Amounts == 0..MaxAmount
Rates == 0..MaxRate
MinStakes == {0, MinStake}
LockPeriods == {0, LockPeriod}
TickSteps == {1}

PoolIds == 0..MaxPools

---------------------------------------------------------------------------
(* Fixed-point accumulator.  accRewardPerShare is a uint256 scaled by 1e12; *)
(* a value v is kept as the three digits <<w, hi, lo>> of v in base 1e6,     *)
(* v = w*1e12 + hi*1e6 + lo, so that the arithmetic below is exact.          *)

LimbBase == 1000000

AccZero == <<0, 0, 0>>

\* a.add(b) on accumulator values
AccAdd(a, b) ==
    LET lo == a[3] + b[3]
        hi == a[2] + b[2] + (lo \div LimbBase)
    IN  <<a[1] + b[1] + (hi \div LimbBase), hi % LimbBase, lo % LimbBase>>

\* reward.mul(1e12).div(totalStaked), totalStaked > 0
\* reward.mul(1e12).div(totalStaked) rounded up instead of down
RewardPerShareRoundsUp(reward, totalStaked) ==
    LET r1 == reward % totalStaked
        r2 == (r1 * LimbBase) % totalStaked
        r3 == (r2 * LimbBase) % totalStaked
    IN  AccAdd(<<reward \div totalStaked,
                 (r1 * LimbBase) \div totalStaked,
                 (r2 * LimbBase) \div totalStaked>>,
               <<0, 0, IF r3 = 0 THEN 0 ELSE 1>>)

RewardPerShare(reward, totalStaked) ==
    LET r1 == reward % totalStaked
        r2 == (r1 * LimbBase) % totalStaked
    IN  <<reward \div totalStaked,
          (r1 * LimbBase) \div totalStaked,
          (r2 * LimbBase) \div totalStaked>>

\* amount.mul(accRewardPerShare).div(1e12)
ShareOf(amount, acc) ==
    LET c0 == amount * acc[3]
        c1 == amount * acc[2] + (c0 \div LimbBase)
    IN  amount * acc[1] + (c1 \div LimbBase)

AccLeq(a, b) ==
    \/ a[1] < b[1]
    \/ a[1] = b[1] /\ a[2] < b[2]
    \/ a[1] = b[1] /\ a[2] = b[2] /\ a[3] <= b[3]

Min(a, b) == IF a < b THEN a ELSE b

---------------------------------------------------------------------------
(* State *)

EmptyStake == [amount |-> 0, timestamp |-> 0, rewardDebt |-> 0, active |-> FALSE]

poolLength == Len(poolInfo)

\* poolInfo[_pid] is an element of the array (an index past the end panics)
ValidPid(pid) == pid \in 0..(poolLength - 1)

PoolOf(pid) == poolInfo[pid + 1]

\* no staking call is in progress (ReentrancyGuard's _status is NOT_ENTERED)
NoCall == [op |-> "none", user |-> "none", pid |-> 0, amt |-> 0, at |-> "none"]

\* audit is an observer's account of every pool's reward: emitted is the sum
\* of the rewards updatePool has computed (line 99), settled the sum of the
\* pending amounts deposit, withdraw and harvest have computed for payout
\* (lines 118, 153, 183).  NoAudit: no account is kept.
NoAudit ==
    [on |-> FALSE, emitted |-> [pid \in PoolIds |-> 0], settled |-> [pid \in PoolIds |-> 0]]

---------------------------------------------------------------------------
(* BaseLiquidityManager and RewardMultipliers (BaseLiquidityManager.sol):  *)
(* the two further contracts of the repository.  They share nothing with   *)
(* BaseStakingRewards except the clock; their token and ether balances are *)
(* kept apart from the staking contract's.                                 *)

MaxManagerPools == 2
MaxAdds == 2
LiquidityBalance == 2
MaxLockDuration == 2

ZeroAddress == "0x0"
Manager == "manager"
ManagerPoolIds == 0..MaxManagerPools
LiquidityHolders == Users \cup {Owner, Manager}
LiquidityAmounts == 0..LiquidityBalance
LockDurations == {0, MaxLockDuration}

MAX_FEE_RATE == 1000

\* an unwritten entry of the pools mapping
EmptyPool ==
    [tokenA |-> ZeroAddress, tokenB |-> ZeroAddress, reserveA |-> 0, reserveB |-> 0,
     totalShares |-> 0, feeRate |-> 0, active |-> FALSE, lastUpdate |-> 0]

\* an unwritten entry of the userPositions mapping
EmptyPosition == [shares |-> 0, rewardDebt |-> 0, lastDeposit |-> 0, lockEndTime |-> 0]

\* nothing added, nothing removed, nothing locked
NothingObserved ==
    [added |-> [pid \in ManagerPoolIds |-> <<0, 0>>],
     removed |-> [pid \in ManagerPoolIds |-> <<0, 0>>],
     adds |-> [pid \in ManagerPoolIds |-> 0],
     lockedUntil |-> [pid \in ManagerPoolIds |-> [u \in Users |-> 0]]]

\* BaseLiquidityManager after construction; every user holds
\* LiquidityBalance of each token
ManagerDeployed ==
    /\ pools = [pid \in ManagerPoolIds |-> EmptyPool]
    /\ userPositions = [pid \in ManagerPoolIds |-> [u \in Users |-> EmptyPosition]]
    /\ poolStrategies = [pid \in ManagerPoolIds |-> <<>>]
    /\ poolCount = 0
    /\ totalValueLocked = 0
    /\ paused = FALSE
    /\ held = [t \in Tokens |-> [h \in LiquidityHolders |->
                  IF h \in Users THEN LiquidityBalance ELSE 0]]
    /\ observed = NothingObserved

MaxContributions == 1
MaxMultiplierTime == 30

MAX_MULTIPLIER == 500
MIN_MULTIPLIER == 50
QUALITY_THRESHOLD == 80
MaxQualityBonus == 50

\* time is counted in days by RewardMultipliers' actions (30 days, 60 days,
\* 90 days of lines 502-511), and ether in halves of an ether (1 ether of
\* line 508 is two units), so that an amount below one ether exists
ThirtyDays == 30
SixtyDays == 60
NinetyDays == 90
OneEther == 2
LargeStake == 100 * OneEther
EtherBalance == LargeStake + OneEther

Multipliers == "multipliers"
EtherHolders == Users \cup {Owner, Multipliers}

ContributionType ==
    {"COMMIT", "PULL_REQUEST", "ISSUE", "CODE_REVIEW", "DEPLOYMENT", "DOCUMENTATION",
     "BUG_FIX", "FEATURE", "SECURITY_AUDIT", "COMMUNITY_ENGAGEMENT"}

Multiplier(baseMultiplier, qualityBonus, timeBonus, isActive, lastUpdated) ==
    [baseMultiplier |-> baseMultiplier, qualityBonus |-> qualityBonus,
     timeBonus |-> timeBonus, isActive |-> isActive, lastUpdated |-> lastUpdated]

\* the table the constructor writes at time t
InitialMultipliers(t) ==
    [c \in ContributionType |->
        CASE c = "COMMIT" -> Multiplier(100, 10, 5, TRUE, t)
          [] c = "PULL_REQUEST" -> Multiplier(150, 20, 10, TRUE, t)
          [] c = "ISSUE" -> Multiplier(80, 5, 3, TRUE, t)
          [] c = "CODE_REVIEW" -> Multiplier(120, 15, 8, TRUE, t)
          [] c = "DEPLOYMENT" -> Multiplier(200, 25, 15, TRUE, t)
          [] c = "DOCUMENTATION" -> Multiplier(90, 8, 4, TRUE, t)
          [] c = "BUG_FIX" -> Multiplier(180, 22, 12, TRUE, t)
          [] c = "FEATURE" -> Multiplier(160, 18, 10, TRUE, t)
          [] c = "SECURITY_AUDIT" -> Multiplier(250, 30, 20, TRUE, t)
          [] c = "COMMUNITY_ENGAGEMENT" -> Multiplier(70, 5, 2, TRUE, t)]

\* an unwritten entry of the stakingMultipliers mapping
NoStaking == [stakingAmount |-> 0, multiplierBonus |-> 0, stakingDuration |-> 0, unlockTime |-> 0]

\* RewardMultipliers after construction; every user holds EtherBalance
MultipliersDeployed ==
    /\ multipliers = InitialMultipliers(0)
    /\ stakingMultipliers = [u \in Users |-> NoStaking]
    /\ reputationScores = [u \in Users |-> 0]
    /\ userContributions = [u \in Users |-> [c \in ContributionType |-> 0]]
    /\ ether = [h \in EtherHolders |-> IF h \in Users THEN EtherBalance ELSE 0]

---------------------------------------------------------------------------
\* the state after construction; every user holds initialBalance of each
\* staking token
InitContract(initialBalance) ==
    /\ now = 0
    /\ inCall = NoCall
    /\ poolInfo = <<>>
    /\ userInfo = [pid \in PoolIds |-> [u \in Users |-> EmptyStake]]
    /\ balance = [t \in Tokens |-> [h \in Holders |->
                     IF h # Engine /\ t \in StakeTokens THEN initialBalance ELSE 0]]
    /\ ManagerDeployed
    /\ MultipliersDeployed

\* every token reverts on a transfer its sender cannot cover (OpenZeppelin ERC20)
Init == InitContract(InitialBalance) /\ lenient = {} /\ audit = NoAudit

\* every token returns false on a transfer its sender cannot cover
InitLenient == InitContract(InitialBalance) /\ lenient = Tokens /\ audit = NoAudit

---------------------------------------------------------------------------
(* ERC20 collaborator *)

\* balances after amt of token t has moved from holder src to holder dst
Moved(bal, t, src, dst, amt) ==
    IF src = dst THEN bal
    ELSE [bal EXCEPT ![t][src] = @ - amt, ![t][dst] = @ + amt]

\* outcome of transfer / transferFrom of amt out of src: the tokens move when
\* the balance covers them; otherwise the token reverts, or returns false when
\* it is one of the tokens that report failure by their return value
TransferOutcome(bal, t, src, amt) ==
    IF bal[t][src] >= amt THEN "moved"
    ELSE IF t \in lenient THEN "false" ELSE "revert"

\* balances after the call; a returned false is ignored by the caller
AfterTransfer(bal, t, src, dst, amt) ==
    IF TransferOutcome(bal, t, src, amt) = "moved" THEN Moved(bal, t, src, dst, amt)
    ELSE bal

---------------------------------------------------------------------------
(* Pool accounting *)

\* updatePool storing the interval's reward per share instead of adding it
UpdatedPoolOverwrites(pool, t) ==
    IF t <= pool.lastRewardTime THEN pool
    ELSE IF pool.totalStaked = 0 THEN [pool EXCEPT !.lastRewardTime = t]
    ELSE [pool EXCEPT
            !.accRewardPerShare =
                RewardPerShare((t - pool.lastRewardTime) * pool.rewardPerSecond,
                               pool.totalStaked),
            !.lastRewardTime = t]

\* updatePool crediting the reward of an interval without stakers to the
\* accumulator, for the next depositor
UpdatedPoolAccruesEmpty(pool, t) ==
    IF t <= pool.lastRewardTime THEN pool
    ELSE LET reward == (t - pool.lastRewardTime) * pool.rewardPerSecond
         IN  [pool EXCEPT
                !.accRewardPerShare =
                    AccAdd(@, IF pool.totalStaked = 0 THEN <<reward, 0, 0>>
                              ELSE RewardPerShare(reward, pool.totalStaked)),
                !.lastRewardTime = t]

\* the pool record updatePool leaves at time t
\* updatePool adding the interval's reward without moving lastRewardTime
UpdatedPoolKeepsTime(pool, t) ==
    IF t <= pool.lastRewardTime THEN pool
    ELSE IF pool.totalStaked = 0 THEN [pool EXCEPT !.lastRewardTime = t]
    ELSE LET timeElapsed == t - pool.lastRewardTime
             reward == timeElapsed * pool.rewardPerSecond
         IN  [pool EXCEPT
                !.accRewardPerShare = AccAdd(@, RewardPerShare(reward, pool.totalStaked))]

\* updatePool setting lastRewardTime to the end of the next whole reward period
UpdatedPoolAhead(pool, t) ==
    IF t <= pool.lastRewardTime THEN pool
    ELSE IF pool.totalStaked = 0 THEN [pool EXCEPT !.lastRewardTime = t + 1]
    ELSE LET timeElapsed == t - pool.lastRewardTime
             reward == timeElapsed * pool.rewardPerSecond
         IN  [pool EXCEPT
                !.accRewardPerShare = AccAdd(@, RewardPerShare(reward, pool.totalStaked)),
                !.lastRewardTime = t + 1]

UpdatedPool(pool, t) ==
    IF t <= pool.lastRewardTime THEN pool
    ELSE IF pool.totalStaked = 0 THEN [pool EXCEPT !.lastRewardTime = t]
    ELSE LET timeElapsed == t - pool.lastRewardTime
             reward == timeElapsed * pool.rewardPerSecond
         IN  [pool EXCEPT
                !.accRewardPerShare = AccAdd(@, RewardPerShare(reward, pool.totalStaked)),
                !.lastRewardTime = t]

\* user.amount.mul(pool.accRewardPerShare).div(1e12).sub(user.rewardDebt);
\* SafeMath.sub reverts when the difference is negative
Pending(user, pool) == ShareOf(user.amount, pool.accRewardPerShare) - user.rewardDebt

\* the reward updatePool computes for the interval up to t (line 99); none
\* when it returns early (lines 89-96)
Emission(pool, t) ==
    IF t <= pool.lastRewardTime \/ pool.totalStaked = 0 THEN 0
    ELSE (t - pool.lastRewardTime) * pool.rewardPerSecond

\* the account after a call that runs updatePool(pid) and computes pending for
\* payout
Audited(pid, pending) ==
    IF ~audit.on THEN audit
    ELSE [audit EXCEPT !.emitted[pid] = @ + Emission(PoolOf(pid), now),
                       !.settled[pid] = @ + pending]

\* safeRewardTransfer sending nothing when the reward balance is short
RewardPaidAllOrNothing(bal, pool, amount) ==
    IF amount > bal[pool.rewardToken][Engine] THEN 0 ELSE amount

\* the amount safeRewardTransfer sends: the whole reward balance when it is
\* less than the amount asked for
RewardPaid(bal, pool, amount) ==
    IF amount > bal[pool.rewardToken][Engine] THEN bal[pool.rewardToken][Engine]
    ELSE amount

\* balances after safeRewardTransfer(_pid, to, amount)
SafeRewardTransfer(bal, pool, to, amount) ==
    Moved(bal, pool.rewardToken, Engine, to, RewardPaid(bal, pool, amount))

\* pendingReward reading the stored accumulator, without the reward accrued
\* since lastRewardTime
PendingRewardAtStored(pid, u, t) ==
    IF ~userInfo[pid][u].active THEN 0 ELSE Pending(userInfo[pid][u], PoolOf(pid))

\* pendingReward(_pid, _user) evaluated at block.timestamp = t
\* pendingReward returning the position's gross share, rewardDebt not deducted
PendingRewardAtGross(pid, u, t) ==
    LET pool == PoolOf(pid)
        user == userInfo[pid][u]
    IN  IF ~user.active THEN 0
        ELSE ShareOf(user.amount, UpdatedPool(pool, t).accRewardPerShare)

PendingRewardAt(pid, u, t) ==
    LET pool == PoolOf(pid)
        user == userInfo[pid][u]
        acc  == IF t > pool.lastRewardTime /\ pool.totalStaked # 0
                THEN AccAdd(pool.accRewardPerShare,
                            RewardPerShare((t - pool.lastRewardTime) * pool.rewardPerSecond,
                                           pool.totalStaked))
                ELSE pool.accRewardPerShare
    IN  IF ~user.active THEN 0 ELSE ShareOf(user.amount, acc) - user.rewardDebt

pendingReward(pid, u) == PendingRewardAt(pid, u, now)

---------------------------------------------------------------------------
(* How each call ends: "ok", or the reason it reverts, in the order the    *)
(* function tests them.                                                    *)

\* how pendingReward(_pid, _user) ends: poolInfo[_pid] panics past the end of
\* the array, and SafeMath.sub reverts on a negative difference
pendingRewardResult(pid, u) ==
    IF ~ValidPid(pid) THEN "index out of bounds"
    ELSE IF userInfo[pid][u].active /\ pendingReward(pid, u) < 0
         THEN "SafeMath: subtraction overflow"
    ELSE "ok"

addPoolResult(caller) ==
    IF caller # Owner THEN "Ownable: caller is not the owner" ELSE "ok"

updatePoolResult(pid) ==
    IF ~ValidPid(pid) THEN "index out of bounds" ELSE "ok"

\* updateRewardRate without the onlyOwner modifier
updateRewardRateResultAnyone(caller, pid) == updatePoolResult(pid)

updateRewardRateResult(caller, pid) ==
    IF caller # Owner THEN "Ownable: caller is not the owner"
    ELSE updatePoolResult(pid)

\* deposit testing the minimum stake for the first deposit of a position only
depositResultMinOnFirst(u, pid, amt) ==
    IF ~ValidPid(pid) THEN "index out of bounds"
    ELSE LET user == userInfo[pid][u]
             pool == UpdatedPool(PoolOf(pid), now)
             pending == IF user.active THEN Pending(user, pool) ELSE 0
             bal1 == IF pending > 0 THEN SafeRewardTransfer(balance, pool, u, pending)
                     ELSE balance
         IN  IF ~user.active /\ amt < pool.minStakeAmount THEN "Amount below minimum stake"
             ELSE IF pending < 0 THEN "SafeMath: subtraction overflow"
             ELSE IF TransferOutcome(bal1, pool.stakingToken, u, amt) = "revert"
                  THEN "ERC20: transfer amount exceeds balance"
             ELSE "ok"

depositResult(u, pid, amt) ==
    IF ~ValidPid(pid) THEN "index out of bounds"
    ELSE LET user == userInfo[pid][u]
             pool == UpdatedPool(PoolOf(pid), now)
             pending == IF user.active THEN Pending(user, pool) ELSE 0
             bal1 == IF pending > 0 THEN SafeRewardTransfer(balance, pool, u, pending)
                     ELSE balance
         IN  IF amt < pool.minStakeAmount THEN "Amount below minimum stake"
             ELSE IF pending < 0 THEN "SafeMath: subtraction overflow"
             ELSE IF TransferOutcome(bal1, pool.stakingToken, u, amt) = "revert"
                  THEN "ERC20: transfer amount exceeds balance"
             ELSE "ok"

\* withdraw without require(user.active)
withdrawResultNoActiveCheck(u, pid, amt) ==
    IF ~ValidPid(pid) THEN "index out of bounds"
    ELSE LET user == userInfo[pid][u]
             pool == UpdatedPool(PoolOf(pid), now)
             pending == Pending(user, pool)
             bal1 == IF pending > 0 THEN SafeRewardTransfer(balance, pool, u, pending)
                     ELSE balance
         IN  IF user.amount < amt THEN "Insufficient staked amount"
             ELSE IF now < user.timestamp + pool.lockPeriod THEN "Tokens still locked"
             ELSE IF pending < 0 THEN "SafeMath: subtraction overflow"
             ELSE IF pool.totalStaked < amt THEN "SafeMath: subtraction overflow"
             ELSE IF TransferOutcome(bal1, pool.stakingToken, Engine, amt) = "revert"
                  THEN "ERC20: transfer amount exceeds balance"
             ELSE "ok"

withdrawResult(u, pid, amt) ==
    IF ~ValidPid(pid) THEN "index out of bounds"
    ELSE LET user == userInfo[pid][u]
             pool == UpdatedPool(PoolOf(pid), now)
             pending == Pending(user, pool)
             bal1 == IF pending > 0 THEN SafeRewardTransfer(balance, pool, u, pending)
                     ELSE balance
         IN  IF ~user.active THEN "No active stake"
             ELSE IF user.amount < amt THEN "Insufficient staked amount"
             ELSE IF now < user.timestamp + pool.lockPeriod THEN "Tokens still locked"
             ELSE IF pending < 0 THEN "SafeMath: subtraction overflow"
             ELSE IF pool.totalStaked < amt THEN "SafeMath: subtraction overflow"
             ELSE IF TransferOutcome(bal1, pool.stakingToken, Engine, amt) = "revert"
                  THEN "ERC20: transfer amount exceeds balance"
             ELSE "ok"

\* harvest without require(pending > 0)
harvestResultAllowsZero(u, pid) ==
    IF ~ValidPid(pid) THEN "index out of bounds"
    ELSE LET user == userInfo[pid][u]
             pool == UpdatedPool(PoolOf(pid), now)
             pending == Pending(user, pool)
         IN  IF ~user.active THEN "No active stake"
             ELSE IF pending < 0 THEN "SafeMath: subtraction overflow"
             ELSE "ok"

harvestResult(u, pid) ==
    IF ~ValidPid(pid) THEN "index out of bounds"
    ELSE LET user == userInfo[pid][u]
             pool == UpdatedPool(PoolOf(pid), now)
             pending == Pending(user, pool)
         IN  IF ~user.active THEN "No active stake"
             ELSE IF pending < 0 THEN "SafeMath: subtraction overflow"
             ELSE IF pending = 0 THEN "No pending rewards"
             ELSE "ok"

emergencyWithdrawResult(u, pid) ==
    IF ~ValidPid(pid) THEN "index out of bounds"
    ELSE LET user == userInfo[pid][u]
             pool == PoolOf(pid)
         IN  IF ~user.active THEN "No active stake"
             ELSE IF pool.totalStaked < user.amount THEN "SafeMath: subtraction overflow"
             ELSE IF TransferOutcome(balance, pool.stakingToken, Engine, user.amount) = "revert"
                  THEN "ERC20: transfer amount exceeds balance"
             ELSE "ok"

---------------------------------------------------------------------------
(* Actions *)

\* block.timestamp advances by d
Tick(d) ==
    /\ now' = now + d
    /\ UNCHANGED <<poolInfo, userInfo, balance, lenient, liquidityManager, rewardMultipliers, inCall, audit>>

\* amt of a pool's reward token is sent to the contract from outside
FundReward(t, amt) ==
    /\ \E pid \in PoolIds : ValidPid(pid) /\ PoolOf(pid).rewardToken = t
    /\ balance' = [balance EXCEPT ![t][Engine] = @ + amt]
    /\ UNCHANGED <<now, poolInfo, userInfo, lenient, liquidityManager, rewardMultipliers, inCall, audit>>

\* addPool inserting the new pool at id 0 and shifting the existing pools
addPoolPrepends(caller, stakingToken, rewardToken, rewardPerSecond, minStakeAmount, lockPeriod) ==
    /\ addPoolResult(caller) = "ok"
    /\ poolInfo' = <<[stakingToken |-> stakingToken,
                      rewardToken |-> rewardToken,
                      rewardPerSecond |-> rewardPerSecond,
                      lastRewardTime |-> now,
                      accRewardPerShare |-> AccZero,
                      totalStaked |-> 0,
                      minStakeAmount |-> minStakeAmount,
                      lockPeriod |-> lockPeriod]>> \o poolInfo
    /\ UNCHANGED <<now, userInfo, balance, lenient, liquidityManager, rewardMultipliers, inCall, audit>>

addPool(caller, stakingToken, rewardToken, rewardPerSecond, minStakeAmount, lockPeriod) ==
    /\ addPoolResult(caller) = "ok"
    /\ poolInfo' = Append(poolInfo,
            [stakingToken |-> stakingToken,
             rewardToken |-> rewardToken,
             rewardPerSecond |-> rewardPerSecond,
             lastRewardTime |-> now,
             accRewardPerShare |-> AccZero,
             totalStaked |-> 0,
             minStakeAmount |-> minStakeAmount,
             lockPeriod |-> lockPeriod])
    /\ UNCHANGED <<now, userInfo, balance, lenient, liquidityManager, rewardMultipliers, inCall, audit>>

\* updateRewardRate storing the new rate without accruing the pool first
updateRewardRateNoAccrual(caller, pid, rewardPerSecond) ==
    /\ updateRewardRateResult(caller, pid) = "ok"
    /\ poolInfo' = [poolInfo EXCEPT ![pid + 1].rewardPerSecond = rewardPerSecond]
    /\ UNCHANGED <<now, userInfo, balance, lenient, liquidityManager, rewardMultipliers, inCall, audit>>

\* updateRewardRate lifting the pool's lock period along with the rate change
updateRewardRateClearsLock(caller, pid, rewardPerSecond) ==
    /\ updateRewardRateResult(caller, pid) = "ok"
    /\ poolInfo' = [poolInfo EXCEPT ![pid + 1] =
            [UpdatedPool(PoolOf(pid), now) EXCEPT !.rewardPerSecond = rewardPerSecond,
                                                  !.lockPeriod = 0]]
    /\ audit' = Audited(pid, 0)
    /\ UNCHANGED <<now, userInfo, balance, lenient, liquidityManager, rewardMultipliers, inCall>>

\* updateRewardRate restarting the pool's accumulator at 0 for the new rate
updateRewardRateResetsAccumulator(caller, pid, rewardPerSecond) ==
    /\ updateRewardRateResult(caller, pid) = "ok"
    /\ poolInfo' = [poolInfo EXCEPT ![pid + 1] =
            [UpdatedPool(PoolOf(pid), now) EXCEPT !.rewardPerSecond = rewardPerSecond,
                                                  !.accRewardPerShare = AccZero]]
    /\ audit' = Audited(pid, 0)
    /\ UNCHANGED <<now, userInfo, balance, lenient, liquidityManager, rewardMultipliers, inCall>>

updateRewardRate(caller, pid, rewardPerSecond) ==
    /\ updateRewardRateResult(caller, pid) = "ok"
    /\ poolInfo' = [poolInfo EXCEPT ![pid + 1] =
            [UpdatedPool(PoolOf(pid), now) EXCEPT !.rewardPerSecond = rewardPerSecond]]
    /\ audit' = Audited(pid, 0)
    /\ UNCHANGED <<now, userInfo, balance, lenient, liquidityManager, rewardMultipliers, inCall>>

\* updatePool creating the pool it is asked for when the id is the next free one
updatePoolCreatesUnknown(pid) ==
    /\ pid <= poolLength
    /\ poolInfo' = IF ValidPid(pid)
                   THEN [poolInfo EXCEPT ![pid + 1] = UpdatedPool(PoolOf(pid), now)]
                   ELSE Append(poolInfo,
                               [stakingToken |-> "T1",
                                rewardToken |-> "T1",
                                rewardPerSecond |-> 0,
                                lastRewardTime |-> now,
                                accRewardPerShare |-> AccZero,
                                totalStaked |-> 0,
                                minStakeAmount |-> 0,
                                lockPeriod |-> 0])
    /\ audit' = IF ValidPid(pid) THEN Audited(pid, 0) ELSE audit
    /\ UNCHANGED <<now, userInfo, balance, lenient, liquidityManager, rewardMultipliers, inCall>>

updatePool(pid) ==
    /\ updatePoolResult(pid) = "ok"
    /\ poolInfo' = [poolInfo EXCEPT ![pid + 1] = UpdatedPool(PoolOf(pid), now)]
    /\ audit' = Audited(pid, 0)
    /\ UNCHANGED <<now, userInfo, balance, lenient, liquidityManager, rewardMultipliers, inCall>>

\* deposit keeping the lock of the first deposit on a top-up
depositKeepsLock(u, pid, amt) ==
    /\ depositResult(u, pid, amt) = "ok"
    /\ LET user == userInfo[pid][u]
           pool == UpdatedPool(PoolOf(pid), now)
           pending == IF user.active THEN Pending(user, pool) ELSE 0
           bal1 == IF pending > 0 THEN SafeRewardTransfer(balance, pool, u, pending)
                   ELSE balance
           amount == user.amount + amt
       IN  /\ balance' = AfterTransfer(bal1, pool.stakingToken, u, Engine, amt)
           /\ userInfo' = [userInfo EXCEPT ![pid][u] =
                  [amount |-> amount,
                   timestamp |-> IF user.active THEN user.timestamp ELSE now,
                   rewardDebt |-> ShareOf(amount, pool.accRewardPerShare),
                   active |-> TRUE]]
           /\ poolInfo' = [poolInfo EXCEPT ![pid + 1] =
                  [pool EXCEPT !.totalStaked = @ + amt]]
           /\ audit' = Audited(pid, pending)
    /\ UNCHANGED <<now, lenient, liquidityManager, rewardMultipliers, inCall>>

\* deposit adding the amount to the totalStaked of every pool
depositIntoEveryPool(u, pid, amt) ==
    /\ depositResult(u, pid, amt) = "ok"
    /\ LET user == userInfo[pid][u]
           pool == UpdatedPool(PoolOf(pid), now)
           pending == IF user.active THEN Pending(user, pool) ELSE 0
           bal1 == IF pending > 0 THEN SafeRewardTransfer(balance, pool, u, pending)
                   ELSE balance
           amount == user.amount + amt
       IN  /\ balance' = AfterTransfer(bal1, pool.stakingToken, u, Engine, amt)
           /\ userInfo' = [userInfo EXCEPT ![pid][u] =
                  [amount |-> amount,
                   timestamp |-> now,
                   rewardDebt |-> ShareOf(amount, pool.accRewardPerShare),
                   active |-> TRUE]]
           /\ poolInfo' = [i \in DOMAIN poolInfo |->
                  IF i = pid + 1 THEN [pool EXCEPT !.totalStaked = @ + amt]
                  ELSE [poolInfo[i] EXCEPT !.totalStaked = @ + amt]]
           /\ audit' = Audited(pid, pending)
    /\ UNCHANGED <<now, lenient, liquidityManager, rewardMultipliers, inCall>>

deposit(u, pid, amt) ==
    /\ depositResult(u, pid, amt) = "ok"
    /\ LET user == userInfo[pid][u]
           pool == UpdatedPool(PoolOf(pid), now)
           pending == IF user.active THEN Pending(user, pool) ELSE 0
           bal1 == IF pending > 0 THEN SafeRewardTransfer(balance, pool, u, pending)
                   ELSE balance
           amount == user.amount + amt
       IN  /\ balance' = AfterTransfer(bal1, pool.stakingToken, u, Engine, amt)
           /\ userInfo' = [userInfo EXCEPT ![pid][u] =
                  [amount |-> amount,
                   timestamp |-> now,
                   rewardDebt |-> ShareOf(amount, pool.accRewardPerShare),
                   active |-> TRUE]]
           /\ poolInfo' = [poolInfo EXCEPT ![pid + 1] =
                  [pool EXCEPT !.totalStaked = @ + amt]]
           /\ audit' = Audited(pid, pending)
    /\ UNCHANGED <<now, lenient, liquidityManager, rewardMultipliers, inCall>>

\* withdraw leaving rewardDebt at the value of the larger position
withdrawKeepsDebt(u, pid, amt) ==
    /\ withdrawResult(u, pid, amt) = "ok"
    /\ LET user == userInfo[pid][u]
           pool == UpdatedPool(PoolOf(pid), now)
           pending == Pending(user, pool)
           bal1 == IF pending > 0 THEN SafeRewardTransfer(balance, pool, u, pending)
                   ELSE balance
           amount == user.amount - amt
       IN  /\ userInfo' = [userInfo EXCEPT ![pid][u] =
                  [user EXCEPT !.amount = amount,
                               !.rewardDebt = ShareOf(user.amount, pool.accRewardPerShare),
                               !.active = IF amount = 0 THEN FALSE ELSE @]]
           /\ poolInfo' = [poolInfo EXCEPT ![pid + 1] =
                  [pool EXCEPT !.totalStaked = @ - amt]]
           /\ balance' = AfterTransfer(bal1, pool.stakingToken, Engine, u, amt)
           /\ audit' = Audited(pid, pending)
    /\ UNCHANGED <<now, lenient, liquidityManager, rewardMultipliers, inCall>>

\* withdraw checkpointing the position without paying its pending reward
withdrawForfeitsPending(u, pid, amt) ==
    /\ withdrawResult(u, pid, amt) = "ok"
    /\ LET user == userInfo[pid][u]
           pool == UpdatedPool(PoolOf(pid), now)
           pending == Pending(user, pool)
           amount == user.amount - amt
       IN  /\ userInfo' = [userInfo EXCEPT ![pid][u] =
                  [user EXCEPT !.amount = amount,
                               !.rewardDebt = ShareOf(amount, pool.accRewardPerShare),
                               !.active = IF amount = 0 THEN FALSE ELSE @]]
           /\ poolInfo' = [poolInfo EXCEPT ![pid + 1] =
                  [pool EXCEPT !.totalStaked = @ - amt]]
           /\ balance' = AfterTransfer(balance, pool.stakingToken, Engine, u, amt)
           /\ audit' = Audited(pid, pending)
    /\ UNCHANGED <<now, lenient, liquidityManager, rewardMultipliers, inCall>>

withdraw(u, pid, amt) ==
    /\ withdrawResult(u, pid, amt) = "ok"
    /\ LET user == userInfo[pid][u]
           pool == UpdatedPool(PoolOf(pid), now)
           pending == Pending(user, pool)
           bal1 == IF pending > 0 THEN SafeRewardTransfer(balance, pool, u, pending)
                   ELSE balance
           amount == user.amount - amt
       IN  /\ userInfo' = [userInfo EXCEPT ![pid][u] =
                  [user EXCEPT !.amount = amount,
                               !.rewardDebt = ShareOf(amount, pool.accRewardPerShare),
                               !.active = IF amount = 0 THEN FALSE ELSE @]]
           /\ poolInfo' = [poolInfo EXCEPT ![pid + 1] =
                  [pool EXCEPT !.totalStaked = @ - amt]]
           /\ balance' = AfterTransfer(bal1, pool.stakingToken, Engine, u, amt)
           /\ audit' = Audited(pid, pending)
    /\ UNCHANGED <<now, lenient, liquidityManager, rewardMultipliers, inCall>>

\* harvest paying without resetting rewardDebt
harvestKeepsDebt(u, pid) ==
    /\ harvestResult(u, pid) = "ok"
    /\ LET pool == UpdatedPool(PoolOf(pid), now)
       IN  /\ balance' = SafeRewardTransfer(balance, pool, u, Pending(userInfo[pid][u], pool))
           /\ poolInfo' = [poolInfo EXCEPT ![pid + 1] = pool]
           /\ audit' = Audited(pid, Pending(userInfo[pid][u], pool))
    /\ UNCHANGED <<now, userInfo, lenient, liquidityManager, rewardMultipliers, inCall>>

harvest(u, pid) ==
    /\ harvestResult(u, pid) = "ok"
    /\ LET user == userInfo[pid][u]
           pool == UpdatedPool(PoolOf(pid), now)
           pending == Pending(user, pool)
       IN  /\ userInfo' = [userInfo EXCEPT ![pid][u].rewardDebt =
                  ShareOf(user.amount, pool.accRewardPerShare)]
           /\ balance' = SafeRewardTransfer(balance, pool, u, pending)
           /\ poolInfo' = [poolInfo EXCEPT ![pid + 1] = pool]
           /\ audit' = Audited(pid, pending)
    /\ UNCHANGED <<now, lenient, liquidityManager, rewardMultipliers, inCall>>

\* emergencyWithdraw without the decrease of pool.totalStaked
emergencyWithdrawKeepsTotal(u, pid) ==
    /\ emergencyWithdrawResult(u, pid) = "ok"
    /\ userInfo' = [userInfo EXCEPT ![pid][u] =
           [@ EXCEPT !.amount = 0, !.rewardDebt = 0, !.active = FALSE]]
    /\ balance' = AfterTransfer(balance, PoolOf(pid).stakingToken, Engine, u,
                                userInfo[pid][u].amount)
    /\ UNCHANGED <<now, poolInfo, lenient, liquidityManager, rewardMultipliers, inCall, audit>>

emergencyWithdraw(u, pid) ==
    /\ emergencyWithdrawResult(u, pid) = "ok"
    /\ LET user == userInfo[pid][u]
           pool == PoolOf(pid)
           amount == user.amount
       IN  /\ userInfo' = [userInfo EXCEPT ![pid][u] =
                  [user EXCEPT !.amount = 0, !.rewardDebt = 0, !.active = FALSE]]
           /\ poolInfo' = [poolInfo EXCEPT ![pid + 1].totalStaked = @ - amount]
           /\ balance' = AfterTransfer(balance, pool.stakingToken, Engine, u, amount)
    /\ UNCHANGED <<now, lenient, liquidityManager, rewardMultipliers, inCall, audit>>

---------------------------------------------------------------------------
(* The contract's environment: callers, arguments and the clock *)

AdvanceTime == \E d \in TickSteps : now + d <= MaxTime /\ Tick(d)

Fund ==
    \E t \in Tokens, amt \in 1..MaxFund :
        balance[t][Engine] + amt <= MaxFund /\ FundReward(t, amt)

AddPool ==
    /\ poolLength < MaxPools
    /\ \E caller \in Callers, st \in StakeTokens, rt \in RewardTokens, r \in Rates,
          m \in MinStakes, l \in LockPeriods :
            addPool(caller, st, rt, r, m, l)

UpdateRewardRate ==
    \E caller \in Callers, pid \in PoolIds, r \in Rates : updateRewardRate(caller, pid, r)

UpdatePool == \E pid \in PoolIds : updatePool(pid)

Deposit ==
    \E u \in Users, pid \in PoolIds, amt \in Amounts :
        /\ ValidPid(pid) /\ PoolOf(pid).totalStaked + amt <= MaxTotalStaked
        /\ deposit(u, pid, amt)

Withdraw == \E u \in Users, pid \in PoolIds, amt \in Amounts : withdraw(u, pid, amt)

Harvest == \E u \in Users, pid \in PoolIds : harvest(u, pid)

EmergencyWithdraw == \E u \in Users, pid \in PoolIds : emergencyWithdraw(u, pid)

Next ==
    \/ AdvanceTime
    \/ Fund
    \/ AddPool
    \/ UpdateRewardRate
    \/ UpdatePool
    \/ Deposit
    \/ Withdraw
    \/ Harvest
    \/ EmergencyWithdraw

Spec == Init /\ [][Next]_vars

SpecLenient == InitLenient /\ [][Next]_vars

---------------------------------------------------------------------------
(* The two-staker scenario: the owner adds a pool at time 0, u1 deposits at *)
(* once and is alone for a while, then u2 deposits and both stay for a      *)
(* while; no other call is made.                                            *)

ScenarioRates == {1, 2}
ScenarioAmounts == {10, 20, 100}
ScenarioDelays == {1, 50, 100}

InitScenario == InitContract(100) /\ lenient = {} /\ audit = NoAudit

ScenarioAddPool ==
    /\ poolLength = 0
    /\ \E r \in ScenarioRates : addPool(Owner, "T1", "T2", r, 10, 100)

ScenarioFirstDeposit ==
    /\ poolLength = 1
    /\ ~userInfo[0]["u1"].active
    /\ \E a \in ScenarioAmounts : deposit("u1", 0, a)

ScenarioAlone ==
    /\ userInfo[0]["u1"].active
    /\ ~userInfo[0]["u2"].active
    /\ now = userInfo[0]["u1"].timestamp
    /\ \E d \in ScenarioDelays : Tick(d)

ScenarioSecondDeposit ==
    /\ userInfo[0]["u1"].active
    /\ ~userInfo[0]["u2"].active
    /\ now > userInfo[0]["u1"].timestamp
    /\ \E b \in ScenarioAmounts : deposit("u2", 0, b)

ScenarioTogether ==
    /\ userInfo[0]["u2"].active
    /\ now = userInfo[0]["u2"].timestamp
    /\ \E d \in ScenarioDelays : Tick(d)

NextScenario ==
    \/ ScenarioAddPool
    \/ ScenarioFirstDeposit
    \/ ScenarioAlone
    \/ ScenarioSecondDeposit
    \/ ScenarioTogether

SpecScenario == InitScenario /\ [][NextScenario]_vars

---------------------------------------------------------------------------
(* Properties *)

RECURSIVE SumAmounts(_, _)
SumAmounts(pid, S) ==
    IF S = {} THEN 0
    ELSE LET u == CHOOSE x \in S : TRUE
         IN  userInfo[pid][u].amount + SumAmounts(pid, S \ {u})

ValidPids == {pid \in PoolIds : ValidPid(pid)}

\* a step of one of the four staking calls of user u on pool pid
StakingStep(u, pid) ==
    \/ \E amt \in Amounts : deposit(u, pid, amt)
    \/ \E amt \in Amounts : withdraw(u, pid, amt)
    \/ harvest(u, pid)
    \/ emergencyWithdraw(u, pid)

\* a step of any call on pool pid
PoolStep(pid) ==
    \/ \E u \in Users : StakingStep(u, pid)
    \/ updatePool(pid)
    \/ \E r \in Rates : updateRewardRate(Owner, pid, r)

\* C1 Conservation: in every reachable state, every pool's totalStaked is the
\* sum of the amounts of all users' positions in that pool.
C1_Conservation ==
    \A pid \in ValidPids : PoolOf(pid).totalStaked = SumAmounts(pid, Users)

\* both users hold stake of different sizes in a pool that has accrued, one of
\* them after taking stake out again
C1_Witness ==
    \E pid \in ValidPids :
        /\ userInfo[pid]["u1"].amount = 1
        /\ userInfo[pid]["u2"].amount = 2
        /\ balance[PoolOf(pid).stakingToken]["u1"] >= 1
        /\ PoolOf(pid).accRewardPerShare # AccZero

AbsDiff(a, b) == IF a < b THEN b - a ELSE a - b

\* the end of the two-staker scenario: both hold stake and time has passed
\* since the second deposit
ScenarioEnd ==
    /\ poolLength = 1
    /\ userInfo[0]["u2"].active
    /\ now > userInfo[0]["u2"].timestamp

\* C2 Proportional split: at the end of the two-staker scenario, with rate r,
\* stakes a and b and times t0 < t1 < t2, u1's pending reward is
\* r*(t1-t0) + r*(t2-t1)*a/(a+b) and u2's is r*(t2-t1)*b/(a+b), each up to one
\* unit of truncation; for r = 1, a = b = 100, t0 = 0, t1 = 100, t2 = 200 they
\* are exactly 150 and 50.
C2_ProportionalSplit ==
    ScenarioEnd =>
        LET r  == PoolOf(0).rewardPerSecond
            a  == userInfo[0]["u1"].amount
            b  == userInfo[0]["u2"].amount
            t0 == userInfo[0]["u1"].timestamp
            t1 == userInfo[0]["u2"].timestamp
            t2 == now
            pendingA == pendingReward(0, "u1")
            pendingB == pendingReward(0, "u2")
        IN  /\ AbsDiff(pendingA, r * (t1 - t0) + (r * (t2 - t1) * a) \div (a + b)) <= 1
            /\ AbsDiff(pendingB, (r * (t2 - t1) * b) \div (a + b)) <= 1
            /\ (r = 1 /\ a = 100 /\ b = 100 /\ t0 = 0 /\ t1 = 100 /\ t2 = 200)
                  => (pendingA = 150 /\ pendingB = 50)

\* the scenario of the specification: rate 1, 100 and 100 staked, times 0,
\* 100 and 200
C2_Witness ==
    /\ ScenarioEnd
    /\ PoolOf(0).rewardPerSecond = 1
    /\ userInfo[0]["u1"].amount = 100 /\ userInfo[0]["u2"].amount = 100
    /\ userInfo[0]["u1"].timestamp = 0 /\ userInfo[0]["u2"].timestamp = 100
    /\ now = 200
    /\ pendingReward(0, "u1") = 150 /\ pendingReward(0, "u2") = 50

\* C3 Monotonic accumulator: no step decreases any pool's accRewardPerShare.
C3_MonotonicAccumulator ==
    [][\A pid \in ValidPids :
          AccLeq(PoolOf(pid).accRewardPerShare, poolInfo'[pid + 1].accRewardPerShare)]_vars

\* a pool that accrued over two separate intervals
C3_Witness ==
    \E pid \in ValidPids :
        /\ PoolOf(pid).lastRewardTime = 2
        /\ PoolOf(pid).accRewardPerShare = <<1, 500000, 0>>

\* C4 No accrual while empty: a step that starts with totalStaked = 0 leaves
\* accRewardPerShare unchanged and moves lastRewardTime only forward to now;
\* of the pool's configuration only the reward rate can change; and while the
\* pool stays empty a call on it moves no token.
C4_NoAccrualWhileEmpty ==
    [][\A pid \in ValidPids :
          PoolOf(pid).totalStaked = 0 =>
            /\ poolInfo'[pid + 1].accRewardPerShare = PoolOf(pid).accRewardPerShare
            /\ poolInfo'[pid + 1].lastRewardTime \in {PoolOf(pid).lastRewardTime, now}
            /\ poolInfo'[pid + 1].lastRewardTime >= PoolOf(pid).lastRewardTime
            /\ [poolInfo'[pid + 1] EXCEPT !.lastRewardTime = 0, !.rewardPerSecond = 0,
                                          !.totalStaked = 0]
                 = [PoolOf(pid) EXCEPT !.lastRewardTime = 0, !.rewardPerSecond = 0]
            /\ (PoolStep(pid) /\ poolInfo'[pid + 1].totalStaked = 0) => balance' = balance]_vars

\* a pool that had stakers and accrued, is empty again, and was updated at a
\* later time while empty and funded
C4_Witness ==
    \E pid \in ValidPids :
        /\ PoolOf(pid).totalStaked = 0
        /\ PoolOf(pid).accRewardPerShare # AccZero
        /\ PoolOf(pid).rewardPerSecond > 0
        /\ PoolOf(pid).lastRewardTime = 2
        /\ PoolOf(pid).accRewardPerShare[1] < 2
        /\ balance[PoolOf(pid).rewardToken][Engine] > 0

\* C5 Accrual first: every deposit, withdraw, harvest and emergencyWithdraw step
\* on a pool leaves lastRewardTime = now and an accRewardPerShare that includes
\* the reward of the elapsed interval at the totalStaked held before the step.
C5_AccrueFirst ==
    [][\A u \in Users, pid \in ValidPids :
          StakingStep(u, pid) =>
            /\ poolInfo'[pid + 1].lastRewardTime = now
            /\ poolInfo'[pid + 1].accRewardPerShare
                 = UpdatedPool(PoolOf(pid), now).accRewardPerShare]_vars

\* the positions a withdraw of amt applies to: active, holding at least amt
Withdrawable(u, pid, amt) ==
    userInfo[pid][u].active /\ amt <= userInfo[pid][u].amount

UnlockTime(u, pid) == userInfo[pid][u].timestamp + PoolOf(pid).lockPeriod

\* C6 Lock enforcement: for an active position and an amount it covers,
\* withdraw before depositTime + lockPeriod fails with "Tokens still locked"
\* (the call reverts, so no state changes), and withdraw at or after that time
\* succeeds.
C6_LockEnforcement ==
    \A u \in Users, pid \in ValidPids, amt \in Amounts :
        Withdrawable(u, pid, amt) =>
            IF now < UnlockTime(u, pid)
            THEN /\ withdrawResult(u, pid, amt) = "Tokens still locked"
                 /\ ~ENABLED withdraw(u, pid, amt)
            ELSE /\ withdrawResult(u, pid, amt) = "ok"
                 /\ ENABLED withdraw(u, pid, amt)

\* C7 Lock reset: every deposit step sets the position's timestamp to now, and
\* in every state no part of an active position can be withdrawn before its
\* timestamp + lockPeriod.
C7_LockReset ==
    [][/\ \A u \in Users, pid \in ValidPids :
             (\E amt \in Amounts : deposit(u, pid, amt))
                => userInfo'[pid][u].timestamp = now
       /\ \A u \in Users, pid \in ValidPids, amt \in Amounts :
             (Withdrawable(u, pid, amt) /\ now < UnlockTime(u, pid))
                => ~ENABLED withdraw(u, pid, amt)]_vars

\* u1 topped up, at a time when its earlier stake was unlocked, a position it
\* alone had accrued reward on; the whole position is locked again
C7_Witness ==
    \E pid \in ValidPids :
        /\ PoolOf(pid).lockPeriod = LockPeriod
        /\ userInfo[pid]["u1"].amount = 2
        /\ userInfo[pid]["u1"].timestamp >= LockPeriod
        /\ userInfo[pid]["u1"].rewardDebt > 0
        /\ balance[PoolOf(pid).stakingToken]["u2"] = InitialBalance
        /\ ~userInfo[pid]["u2"].active
        /\ now < UnlockTime("u1", pid)

\* C8 Harvest idempotence: in the state a harvest step leaves, a second harvest
\* by the same user on the same pool reverts with "No pending rewards".
C8_HarvestIdempotence ==
    [][\A u \in Users, pid \in ValidPids :
          harvest(u, pid) =>
            /\ harvestResult(u, pid)' = "No pending rewards"
            /\ ~(ENABLED harvest(u, pid))']_vars

\* u1, alone in a pool with a separate reward token, has harvested a reward
\* and nothing is pending
C8_Witness ==
    \E pid \in ValidPids :
        /\ PoolOf(pid).rewardToken # PoolOf(pid).stakingToken
        /\ userInfo[pid]["u1"].active
        /\ userInfo[pid]["u1"].rewardDebt > 0
        /\ balance[PoolOf(pid).rewardToken]["u1"] > 0
        /\ ~userInfo[pid]["u2"].active
        /\ pendingReward(pid, "u1") = 0

\* C9 Underfunded payout: harvest on an active position with pending p > 0
\* completes whatever reward balance b the contract holds; the step moves
\* exactly min(p, b) of the reward token from the contract to the user and
\* nothing else, sets rewardDebt to amount*accRewardPerShare/1e12, and leaves
\* pendingReward at 0, so the shortfall is not owed afterwards.
C9_UnderfundedPayout ==
    [][/\ \A u \in Users, pid \in ValidPids :
             (/\ userInfo[pid][u].active
              /\ Pending(userInfo[pid][u], UpdatedPool(PoolOf(pid), now)) > 0)
                => /\ harvestResult(u, pid) = "ok"
                   /\ ENABLED harvest(u, pid)
       /\ \A u \in Users, pid \in ValidPids :
             harvest(u, pid) =>
               LET pool == UpdatedPool(PoolOf(pid), now)
                   p == Pending(userInfo[pid][u], pool)
                   b == balance[pool.rewardToken][Engine]
               IN  /\ p > 0
                   /\ balance' = Moved(balance, pool.rewardToken, Engine, u, Min(p, b))
                   /\ userInfo'[pid][u].rewardDebt
                        = ShareOf(userInfo[pid][u].amount, poolInfo'[pid + 1].accRewardPerShare)
                   /\ pendingReward(pid, u)' = 0]_vars

\* u1, alone in the pool since time 0 with one unit staked at rate 1, has been
\* credited 2 units of reward at time 2 and was paid only the 1 unit the
\* contract held
C9_Witness ==
    \E pid \in ValidPids :
        /\ PoolOf(pid).rewardToken # PoolOf(pid).stakingToken
        /\ now = 2
        /\ userInfo[pid]["u1"] = [amount |-> 1, timestamp |-> 0, rewardDebt |-> 2, active |-> TRUE]
        /\ PoolOf(pid).totalStaked = 1
        /\ balance[PoolOf(pid).rewardToken] = [u1 |-> 1, u2 |-> 0, engine |-> 0]
        /\ pendingReward(pid, "u1") = 0

\* C10 Emergency withdraw forfeits rewards: emergencyWithdraw on an active
\* position with a pending reward completes; the step moves exactly the
\* position's amount of the staking token from the contract to the user and no
\* other token, zeroes amount and rewardDebt, clears active, lowers totalStaked
\* by that amount, and pendingReward is 0 for the position at every later time.
C10_EmergencyForfeits ==
    [][/\ \A u \in Users, pid \in ValidPids :
             (userInfo[pid][u].active /\ pendingReward(pid, u) > 0)
                => emergencyWithdrawResult(u, pid) = "ok"
       /\ \A u \in Users, pid \in ValidPids :
             emergencyWithdraw(u, pid) =>
               LET amount == userInfo[pid][u].amount
               IN  /\ balance' = Moved(balance, PoolOf(pid).stakingToken, Engine, u, amount)
                   /\ userInfo'[pid][u] = [userInfo[pid][u] EXCEPT
                          !.amount = 0, !.rewardDebt = 0, !.active = FALSE]
                   /\ poolInfo'[pid + 1].totalStaked = PoolOf(pid).totalStaked - amount
                   /\ \A t \in now..MaxTime : PendingRewardAt(pid, u, t)' = 0]_vars

\* C11 Emergency withdraw bypasses the lock: for every active position
\* emergencyWithdraw completes at any time, also strictly before
\* depositTime + lockPeriod, when withdraw of the position's amount fails with
\* "Tokens still locked".
C11_EmergencyBypassesLock ==
    \A u \in Users, pid \in ValidPids :
        userInfo[pid][u].active =>
            /\ emergencyWithdrawResult(u, pid) = "ok"
            /\ ENABLED emergencyWithdraw(u, pid)
            /\ now < UnlockTime(u, pid) =>
                 withdrawResult(u, pid, userInfo[pid][u].amount) = "Tokens still locked"

---------------------------------------------------------------------------
(* Tokens that report a failed transfer by returning false *)

\* what the stake transfer of each call returns: transferFrom(msg.sender,
\* address(this), _amount) after the pending reward was paid
depositTransfer(u, pid, amt) ==
    LET user == userInfo[pid][u]
        pool == UpdatedPool(PoolOf(pid), now)
        pending == IF user.active THEN Pending(user, pool) ELSE 0
        bal1 == IF pending > 0 THEN SafeRewardTransfer(balance, pool, u, pending)
                ELSE balance
    IN  TransferOutcome(bal1, pool.stakingToken, u, amt)

\* transfer(msg.sender, _amount) after the pending reward was paid
withdrawTransfer(u, pid, amt) ==
    LET user == userInfo[pid][u]
        pool == UpdatedPool(PoolOf(pid), now)
        pending == Pending(user, pool)
        bal1 == IF pending > 0 THEN SafeRewardTransfer(balance, pool, u, pending)
                ELSE balance
    IN  TransferOutcome(bal1, pool.stakingToken, Engine, amt)

\* transfer(msg.sender, amount) of the whole position
emergencyWithdrawTransfer(u, pid) ==
    TransferOutcome(balance, PoolOf(pid).stakingToken, Engine, userInfo[pid][u].amount)

\* a pool with a reward token of its own, which nobody funds
FalseReturnAddPool ==
    /\ poolLength < MaxPools
    /\ \E l \in LockPeriods : addPool(Owner, "T1", "T2", MaxRate, 0, l)

NextFalseReturn ==
    \/ AdvanceTime
    \/ FalseReturnAddPool
    \/ Deposit
    \/ Withdraw
    \/ Harvest
    \/ EmergencyWithdraw

SpecFalseReturn == InitLenient /\ [][NextFalseReturn]_vars

\* C12 Custody-transfer atomicity: no deposit, withdraw or emergencyWithdraw
\* whose stake transfer returns false completes; such a call fails and leaves
\* position, pool and balances as they were.
C12_TransferAtomicity ==
    [][\A u \in Users, pid \in ValidPids :
          /\ \A amt \in Amounts :
                depositTransfer(u, pid, amt) = "false" => ~deposit(u, pid, amt)
          /\ \A amt \in Amounts :
                withdrawTransfer(u, pid, amt) = "false" => ~withdraw(u, pid, amt)
          /\ emergencyWithdrawTransfer(u, pid) = "false" => ~emergencyWithdraw(u, pid)]_vars

\* C13 Reward-debt checkpoint: in the state every deposit, withdraw, harvest
\* and emergencyWithdraw step of user u on pool pid leaves, the position's
\* rewardDebt is floor(amount * accRewardPerShare / 1e12) for the amount and
\* the accumulator of that state.
C13_RewardDebtCheckpoint ==
    [][\A u \in Users, pid \in ValidPids :
          StakingStep(u, pid) =>
            userInfo'[pid][u].rewardDebt
              = ShareOf(userInfo'[pid][u].amount, poolInfo'[pid + 1].accRewardPerShare)]_vars

\* u1 has taken back one of two staked units after reward had accrued, and
\* keeps a position whose rewardDebt is positive
C13_Witness ==
    \E pid \in ValidPids :
        /\ userInfo[pid]["u1"].active
        /\ userInfo[pid]["u1"].amount = 1
        /\ userInfo[pid]["u1"].timestamp = 0
        /\ userInfo[pid]["u1"].rewardDebt > 0
        /\ PoolOf(pid).totalStaked = 1
        /\ PoolOf(pid).rewardToken # PoolOf(pid).stakingToken
        /\ balance[PoolOf(pid).stakingToken] = [u1 |-> 1, u2 |-> 2, engine |-> 1]
        /\ PoolOf(pid).accRewardPerShare = <<1, 0, 0>>

\* C14 Position state consistency: in every reachable state, for every pool
\* and user, the position is active if and only if its amount is positive,
\* whatever the pool's minStakeAmount.
C14_ActiveIffStaked ==
    \A u \in Users, pid \in ValidPids :
        userInfo[pid][u].active <=> userInfo[pid][u].amount > 0

\* C15 Reward rate change ordering: an updateRewardRate(pid, r) step accrues
\* the pool up to now at the old rate and then stores r: pendingReward of
\* every user at the time of the call is the same before and after the step,
\* and at every later time t the pool has accrued the old-rate reward up to
\* the call plus (t - now) * r at the new rate.
C15_RateChangeOrdering ==
    [][\A pid \in ValidPids, r \in Rates :
          updateRewardRate(Owner, pid, r) =>
            LET pool == UpdatedPool(PoolOf(pid), now)
            IN  /\ poolInfo'[pid + 1] = [pool EXCEPT !.rewardPerSecond = r]
                /\ poolInfo'[pid + 1].lastRewardTime = now
                /\ \A u \in Users :
                      /\ pendingReward(pid, u)' = pendingReward(pid, u)
                      /\ \A t \in now..MaxTime :
                            (userInfo[pid][u].active /\ pool.totalStaked > 0) =>
                               PendingRewardAt(pid, u, t)'
                                 = ShareOf(userInfo[pid][u].amount,
                                           AccAdd(pool.accRewardPerShare,
                                                  RewardPerShare((t - now) * r,
                                                                 pool.totalStaked)))
                                   - userInfo[pid][u].rewardDebt]_vars

\* the rate of a pool was set to 0 after reward had accrued at rate 1: u1's
\* reward of the first second is still pending a second later, and no more
C15_Witness ==
    \E pid \in ValidPids :
        /\ now = 2
        /\ PoolOf(pid).rewardPerSecond = 0
        /\ PoolOf(pid).lastRewardTime = 1
        /\ PoolOf(pid).accRewardPerShare = <<1, 0, 0>>
        /\ userInfo[pid]["u1"] = [amount |-> 1, timestamp |-> 0, rewardDebt |-> 0, active |-> TRUE]
        /\ PoolOf(pid).totalStaked = 1
        /\ pendingReward(pid, "u1") = 1

\* C16 Admin gating: in every reachable state, addPool and updateRewardRate
\* called by anyone but the owner revert with "Ownable: caller is not the
\* owner" for every argument, so no such call changes the pool list or a pool.
C16_AdminGating ==
    \A caller \in Callers \ {Owner} :
        /\ addPoolResult(caller) = "Ownable: caller is not the owner"
        /\ \A st \in StakeTokens, rt \in RewardTokens, r \in Rates,
              m \in MinStakes, l \in LockPeriods :
                ~ENABLED addPool(caller, st, rt, r, m, l)
        /\ \A pid \in PoolIds, r \in Rates :
              /\ updateRewardRateResult(caller, pid) = "Ownable: caller is not the owner"
              /\ ~ENABLED updateRewardRate(caller, pid, r)

\* a staker with reward accruing at rate 1 cannot set the rate of its pool
C16_Witness ==
    \E pid \in ValidPids :
        /\ userInfo[pid]["u1"].active
        /\ PoolOf(pid).rewardPerSecond = 1
        /\ pendingReward(pid, "u1") > 0
        /\ updateRewardRateResult("u1", pid) = "Ownable: caller is not the owner"
        /\ addPoolResult("u1") = "Ownable: caller is not the owner"

---------------------------------------------------------------------------
(* Two pools: the owner adds up to MaxRegistryPools pools, u1 stakes single *)
(* units in them, and every call on a pool is made.                         *)

MaxRegistryPools == 2

RegistryAddPool ==
    /\ poolLength < MaxRegistryPools
    /\ \E rt \in RewardTokens, l \in LockPeriods : addPool(Owner, "T1", rt, MaxRate, 0, l)

RegistryDeposit ==
    \E pid \in PoolIds : ValidPid(pid) /\ PoolOf(pid).totalStaked = 0 /\ deposit("u1", pid, 1)

RegistryWithdraw == \E pid \in PoolIds : withdraw("u1", pid, 1)

NextRegistry ==
    \/ AdvanceTime
    \/ RegistryAddPool
    \/ RegistryDeposit
    \/ RegistryWithdraw
    \/ UpdateRewardRate
    \/ UpdatePool
    \/ Harvest
    \/ EmergencyWithdraw

SpecRegistry == Init /\ [][NextRegistry]_vars

\* C17 Pool registry is append-only: every addPool step lengthens the pool
\* list by exactly 1, leaves the pools already listed where they are and puts
\* at the id equal to the previous poolLength a pool with lastRewardTime = now,
\* accRewardPerShare = 0 and totalStaked = 0; no step shortens the list or
\* changes the tokens, minimum stake or lock period found at an existing id.
C17_RegistryAppendOnly ==
    [][/\ poolLength' >= poolLength
       /\ \A pid \in ValidPids :
             /\ poolInfo'[pid + 1].stakingToken = PoolOf(pid).stakingToken
             /\ poolInfo'[pid + 1].rewardToken = PoolOf(pid).rewardToken
             /\ poolInfo'[pid + 1].minStakeAmount = PoolOf(pid).minStakeAmount
             /\ poolInfo'[pid + 1].lockPeriod = PoolOf(pid).lockPeriod
       /\ \A st \in StakeTokens, rt \in RewardTokens, r \in Rates,
             m \in MinStakes, l \in LockPeriods :
               addPool(Owner, st, rt, r, m, l) =>
                 /\ poolLength' = poolLength + 1
                 /\ SubSeq(poolInfo', 1, poolLength) = poolInfo
                 /\ poolInfo'[poolLength + 1] =
                      [stakingToken |-> st, rewardToken |-> rt, rewardPerSecond |-> r,
                       lastRewardTime |-> now, accRewardPerShare |-> AccZero,
                       totalStaked |-> 0, minStakeAmount |-> m, lockPeriod |-> l]
       /\ poolLength' # poolLength =>
             /\ poolLength' = poolLength + 1
             /\ SubSeq(poolInfo', 1, poolLength) = poolInfo
             /\ poolInfo'[poolLength + 1].lastRewardTime = now
             /\ poolInfo'[poolLength + 1].accRewardPerShare = AccZero
             /\ poolInfo'[poolLength + 1].totalStaked = 0]_vars

\* a second pool, with another reward token and lock period, was added at
\* time 1 while u1 was staked in pool 0 with reward accrued
C17_Witness ==
    /\ poolLength = 2
    /\ PoolOf(0).rewardToken # PoolOf(1).rewardToken
    /\ PoolOf(0).lockPeriod # PoolOf(1).lockPeriod
    /\ PoolOf(0).totalStaked = 1
    /\ PoolOf(0).accRewardPerShare = <<1, 0, 0>>
    /\ userInfo[0]["u1"].active
    /\ PoolOf(1).lastRewardTime = 1
    /\ PoolOf(1).accRewardPerShare = AccZero
    /\ PoolOf(1).totalStaked = 0

\* C18 Minimum stake: in every reachable state, deposit of an amount below the
\* pool's minStakeAmount reverts with "Amount below minimum stake", for a
\* caller with an active position as for one without, so it changes no pool
\* field, no position field and no balance.
C18_MinimumStake ==
    \A u \in Users, pid \in ValidPids, amt \in Amounts :
        amt < PoolOf(pid).minStakeAmount =>
            /\ depositResult(u, pid, amt) = "Amount below minimum stake"
            /\ ~ENABLED deposit(u, pid, amt)

\* u1 holds an active position with pending reward in a pool with a minimum
\* stake, u2 holds none, and a deposit of 0 is refused to both
C18_Witness ==
    \E pid \in ValidPids :
        /\ PoolOf(pid).minStakeAmount = MinStake
        /\ userInfo[pid]["u1"].active
        /\ pendingReward(pid, "u1") > 0
        /\ ~userInfo[pid]["u2"].active
        /\ balance[PoolOf(pid).stakingToken]["u1"] > 0
        /\ depositResult("u1", pid, 0) = "Amount below minimum stake"
        /\ depositResult("u2", pid, 0) = "Amount below minimum stake"

\* what withdraw answers to a user without an active position, and to one
\* asking for more than the position's amount
RefusesExcessWithdraw(u, pid) ==
    \A amt \in Amounts :
        /\ ~userInfo[pid][u].active => withdrawResult(u, pid, amt) = "No active stake"
        /\ (userInfo[pid][u].active /\ amt > userInfo[pid][u].amount) =>
              withdrawResult(u, pid, amt) = "Insufficient staked amount"

\* C19 Insufficient stake: withdraw by a user whose position is not active
\* reverts with "No active stake" and withdraw of more than the position's
\* amount reverts with "Insufficient staked amount", so neither changes the
\* state; and the position's amount is what the user deposited and has not
\* withdrawn (deposit adds its argument, withdraw subtracts its argument,
\* emergencyWithdraw takes all, no other step changes it), so no withdraw step
\* takes more than that.
C19_InsufficientStake ==
    [][\A u \in Users, pid \in ValidPids :
          /\ RefusesExcessWithdraw(u, pid)
          /\ RefusesExcessWithdraw(u, pid)'
          /\ \A amt \in Amounts :
                /\ withdraw(u, pid, amt) =>
                      /\ userInfo[pid][u].active
                      /\ amt <= userInfo[pid][u].amount
                      /\ userInfo'[pid][u].amount = userInfo[pid][u].amount - amt
                /\ deposit(u, pid, amt) =>
                      userInfo'[pid][u].amount = userInfo[pid][u].amount + amt
          /\ emergencyWithdraw(u, pid) => userInfo'[pid][u].amount = 0
          /\ userInfo'[pid][u].amount # userInfo[pid][u].amount => StakingStep(u, pid)]_vars

\* u1 holds an unlocked position of one unit and cannot withdraw two; u2, who
\* earned reward and took its whole stake back, cannot withdraw at all
C19_Witness ==
    \E pid \in ValidPids :
        /\ PoolOf(pid).rewardToken # PoolOf(pid).stakingToken
        /\ userInfo[pid]["u1"].active
        /\ userInfo[pid]["u1"].amount = 1
        /\ now >= UnlockTime("u1", pid)
        /\ now > userInfo[pid]["u1"].timestamp
        /\ withdrawResult("u1", pid, 1) = "ok"
        /\ withdrawResult("u1", pid, 2) = "Insufficient staked amount"
        /\ ~userInfo[pid]["u2"].active
        /\ balance["T2"]["u2"] > 0
        /\ withdrawResult("u2", pid, 0) = "No active stake"

\* C20 Harvest preconditions: in every reachable state harvest completes
\* exactly when the caller's position is active and its pending reward
\* floor(amount * accRewardPerShare / 1e12) - rewardDebt, with the pool accrued
\* to now, is positive; it reverts with "No pending rewards" when the position
\* is active and pending is 0 and with "No active stake" when it is not
\* active, and a reverted call changes nothing.
C20_HarvestPreconditions ==
    \A u \in Users, pid \in ValidPids :
        LET user == userInfo[pid][u]
            pending == Pending(user, UpdatedPool(PoolOf(pid), now))
        IN  /\ harvestResult(u, pid) = "ok" <=> (user.active /\ pending > 0)
            /\ ENABLED harvest(u, pid) <=> (user.active /\ pending > 0)
            /\ (user.active /\ pending = 0) => harvestResult(u, pid) = "No pending rewards"
            /\ ~user.active => harvestResult(u, pid) = "No active stake"

\* at time 2 the pool is accrued and u1 has been paid its reward, so that
\* nothing is pending for u1, while u2 has reward pending
C20_Witness ==
    \E pid \in ValidPids :
        /\ now = 2
        /\ PoolOf(pid).lastRewardTime = 2
        /\ userInfo[pid]["u1"].active
        /\ userInfo[pid]["u1"].rewardDebt > 0
        /\ harvestResult("u1", pid) = "No pending rewards"
        /\ userInfo[pid]["u2"].active
        /\ harvestResult("u2", pid) = "ok"

\* C21 Harvest frame: a harvest step changes nothing but the caller's
\* rewardDebt, the pool's accRewardPerShare and lastRewardTime and the balances
\* of the reward token; the caller's amount, timestamp and active flag, the
\* other positions, the pool's totalStaked and other fields, and every balance
\* of the staking token are as before.
C21_HarvestFrame ==
    [][\A u \in Users, pid \in ValidPids :
          harvest(u, pid) =>
            /\ userInfo' = [userInfo EXCEPT ![pid][u].rewardDebt = userInfo'[pid][u].rewardDebt]
            /\ poolInfo' = [poolInfo EXCEPT
                   ![pid + 1].accRewardPerShare = poolInfo'[pid + 1].accRewardPerShare,
                   ![pid + 1].lastRewardTime = poolInfo'[pid + 1].lastRewardTime]
            /\ \A t \in Tokens \ {PoolOf(pid).rewardToken} : balance'[t] = balance[t]
            /\ balance'[PoolOf(pid).stakingToken] = balance[PoolOf(pid).stakingToken]
            /\ now' = now]_vars

\* C22 Underfunded rewards never freeze principal: withdraw of an amount the
\* active position covers, at or after its unlock time, completes whatever the
\* contract's balance of the reward token is, 0 included, and the step moves
\* exactly that amount of the staking token from the contract to the user
\* after the reward that could be paid.
C22_PrincipalNeverFrozen ==
    [][\A u \in Users, pid \in ValidPids, amt \in Amounts :
          /\ (Withdrawable(u, pid, amt) /\ now >= UnlockTime(u, pid)) =>
                withdrawResult(u, pid, amt) = "ok"
          /\ withdraw(u, pid, amt) =>
                LET pool == UpdatedPool(PoolOf(pid), now)
                    pending == Pending(userInfo[pid][u], pool)
                    b == balance[pool.rewardToken][Engine]
                IN  balance' = Moved(Moved(balance, pool.rewardToken, Engine, u, Min(pending, b)),
                                     pool.stakingToken, Engine, u, amt)]_vars

---------------------------------------------------------------------------
(* The staking calls step by step.  A call runs up to an external token     *)
(* transfer; while the token contract executes it (or a recipient it        *)
(* notifies) may call back into the contract; the call goes on when the     *)
(* transfer returns.  inCall names the call in progress and the transfer it *)
(* has issued: "reward" (safeRewardTransfer) or "stake" (the staking        *)
(* token's transfer / transferFrom).                                        *)

\* the functions carrying the nonReentrant modifier
GuardedFunctions == {"deposit", "withdraw", "harvest", "emergencyWithdraw"}

\* what the modifiers of fn answer to a call made while a staking call is in
\* progress
reenterResult(fn) ==
    IF fn \in GuardedFunctions /\ inCall # NoCall
    THEN "ReentrancyGuard: reentrant call"
    ELSE "ok"

CallAt(op, u, pid, amt, at) ==
    [op |-> op, user |-> u, pid |-> pid, amt |-> amt, at |-> at]

\* deposit up to its first external call: updatePool, then the reward payout
\* of an active position with pending > 0, else the transferFrom of the stake
depositBegin(u, pid, amt) ==
    /\ reenterResult("deposit") = "ok"
    /\ depositResult(u, pid, amt) = "ok"
    /\ LET user == userInfo[pid][u]
           pool == UpdatedPool(PoolOf(pid), now)
           pending == IF user.active THEN Pending(user, pool) ELSE 0
       IN  /\ poolInfo' = [poolInfo EXCEPT ![pid + 1] = pool]
           /\ inCall' = CallAt("deposit", u, pid, amt,
                               IF pending > 0 THEN "reward" ELSE "stake")
           /\ audit' = Audited(pid, pending)
    /\ UNCHANGED <<now, userInfo, balance, lenient, liquidityManager, rewardMultipliers>>

\* safeRewardTransfer of deposit returns; deposit issues the transferFrom
depositRewardReturns ==
    /\ inCall.op = "deposit" /\ inCall.at = "reward"
    /\ LET u == inCall.user
           pool == PoolOf(inCall.pid)
       IN  balance' = SafeRewardTransfer(balance, pool, u, Pending(userInfo[inCall.pid][u], pool))
    /\ inCall' = [inCall EXCEPT !.at = "stake"]
    /\ UNCHANGED <<now, poolInfo, userInfo, lenient, liquidityManager, rewardMultipliers, audit>>

\* transferFrom returns; deposit writes the position and totalStaked and ends
depositStakeReturns ==
    /\ inCall.op = "deposit" /\ inCall.at = "stake"
    /\ LET u == inCall.user
           pid == inCall.pid
           pool == PoolOf(pid)
           amount == userInfo[pid][u].amount + inCall.amt
       IN  /\ balance' = AfterTransfer(balance, pool.stakingToken, u, Engine, inCall.amt)
           /\ userInfo' = [userInfo EXCEPT ![pid][u] =
                  [amount |-> amount,
                   timestamp |-> now,
                   rewardDebt |-> ShareOf(amount, pool.accRewardPerShare),
                   active |-> TRUE]]
           /\ poolInfo' = [poolInfo EXCEPT ![pid + 1].totalStaked = @ + inCall.amt]
    /\ inCall' = NoCall
    /\ UNCHANGED <<now, lenient, liquidityManager, rewardMultipliers, audit>>

\* the position and totalStaked as withdraw writes them (lines 159-166)
WithdrawWrites(u, pid, amt) ==
    LET amount == userInfo[pid][u].amount - amt
    IN  /\ userInfo' = [userInfo EXCEPT ![pid][u] =
               [@ EXCEPT !.amount = amount,
                         !.rewardDebt = ShareOf(amount, poolInfo'[pid + 1].accRewardPerShare),
                         !.active = IF amount = 0 THEN FALSE ELSE @]]

\* withdraw up to its first external call: updatePool, then the reward payout
\* when pending > 0; else the position and totalStaked are written and the
\* stake transfer is issued
withdrawBegin(u, pid, amt) ==
    /\ reenterResult("withdraw") = "ok"
    /\ withdrawResult(u, pid, amt) = "ok"
    /\ LET pool == UpdatedPool(PoolOf(pid), now)
           pending == Pending(userInfo[pid][u], pool)
       IN  IF pending > 0
           THEN /\ poolInfo' = [poolInfo EXCEPT ![pid + 1] = pool]
                /\ inCall' = CallAt("withdraw", u, pid, amt, "reward")
                /\ UNCHANGED userInfo
           ELSE /\ poolInfo' = [poolInfo EXCEPT ![pid + 1] =
                       [pool EXCEPT !.totalStaked = @ - amt]]
                /\ WithdrawWrites(u, pid, amt)
                /\ inCall' = CallAt("withdraw", u, pid, amt, "stake")
    /\ audit' = Audited(pid, Pending(userInfo[pid][u], UpdatedPool(PoolOf(pid), now)))
    /\ UNCHANGED <<now, balance, lenient, liquidityManager, rewardMultipliers>>

\* safeRewardTransfer of withdraw returns; withdraw writes the position and
\* totalStaked and issues the stake transfer
withdrawRewardReturns ==
    /\ inCall.op = "withdraw" /\ inCall.at = "reward"
    /\ LET u == inCall.user
           pid == inCall.pid
           pool == PoolOf(pid)
       IN  /\ balance' = SafeRewardTransfer(balance, pool, u, Pending(userInfo[pid][u], pool))
           /\ poolInfo' = [poolInfo EXCEPT ![pid + 1].totalStaked = @ - inCall.amt]
           /\ WithdrawWrites(u, pid, inCall.amt)
    /\ inCall' = [inCall EXCEPT !.at = "stake"]
    /\ UNCHANGED <<now, lenient, liquidityManager, rewardMultipliers, audit>>

\* the stake transfer of withdraw returns and withdraw ends
withdrawStakeReturns ==
    /\ inCall.op = "withdraw" /\ inCall.at = "stake"
    /\ balance' = AfterTransfer(balance, PoolOf(inCall.pid).stakingToken, Engine,
                                inCall.user, inCall.amt)
    /\ inCall' = NoCall
    /\ UNCHANGED <<now, poolInfo, userInfo, lenient, liquidityManager, rewardMultipliers, audit>>

\* harvest up to its external call: updatePool, rewardDebt written, then the
\* reward payout of the pending amount, kept in amt
harvestBegin(u, pid) ==
    /\ reenterResult("harvest") = "ok"
    /\ harvestResult(u, pid) = "ok"
    /\ LET user == userInfo[pid][u]
           pool == UpdatedPool(PoolOf(pid), now)
       IN  /\ poolInfo' = [poolInfo EXCEPT ![pid + 1] = pool]
           /\ userInfo' = [userInfo EXCEPT ![pid][u].rewardDebt =
                  ShareOf(user.amount, pool.accRewardPerShare)]
           /\ inCall' = CallAt("harvest", u, pid, Pending(user, pool), "reward")
           /\ audit' = Audited(pid, Pending(user, pool))
    /\ UNCHANGED <<now, balance, lenient, liquidityManager, rewardMultipliers>>

\* safeRewardTransfer of harvest returns and harvest ends
harvestRewardReturns ==
    /\ inCall.op = "harvest" /\ inCall.at = "reward"
    /\ balance' = SafeRewardTransfer(balance, PoolOf(inCall.pid), inCall.user, inCall.amt)
    /\ inCall' = NoCall
    /\ UNCHANGED <<now, poolInfo, userInfo, lenient, liquidityManager, rewardMultipliers, audit>>

\* emergencyWithdraw up to its external call: the position is emptied and
\* totalStaked lowered, then the stake transfer of the amount, kept in amt
emergencyWithdrawBegin(u, pid) ==
    /\ reenterResult("emergencyWithdraw") = "ok"
    /\ emergencyWithdrawResult(u, pid) = "ok"
    /\ LET amount == userInfo[pid][u].amount
       IN  /\ userInfo' = [userInfo EXCEPT ![pid][u] =
                  [@ EXCEPT !.amount = 0, !.rewardDebt = 0, !.active = FALSE]]
           /\ poolInfo' = [poolInfo EXCEPT ![pid + 1].totalStaked = @ - amount]
           /\ inCall' = CallAt("emergencyWithdraw", u, pid, amount, "stake")
    /\ UNCHANGED <<now, balance, lenient, liquidityManager, rewardMultipliers, audit>>

\* the stake transfer of emergencyWithdraw returns and emergencyWithdraw ends
emergencyWithdrawStakeReturns ==
    /\ inCall.op = "emergencyWithdraw" /\ inCall.at = "stake"
    /\ balance' = AfterTransfer(balance, PoolOf(inCall.pid).stakingToken, Engine,
                                inCall.user, inCall.amt)
    /\ inCall' = NoCall
    /\ UNCHANGED <<now, poolInfo, userInfo, lenient, liquidityManager, rewardMultipliers, audit>>

\* the external transfer in progress returns
CallReturns ==
    \/ depositRewardReturns
    \/ depositStakeReturns
    \/ withdrawRewardReturns
    \/ withdrawStakeReturns
    \/ harvestRewardReturns
    \/ emergencyWithdrawStakeReturns

\* updatePool called from inside the external transfer
reenterUpdatePool(pid) ==
    /\ inCall # NoCall
    /\ reenterResult("updatePool") = "ok"
    /\ updatePool(pid)

\* updateRewardRate called from inside the external transfer
reenterUpdateRewardRate(caller, pid, rewardPerSecond) ==
    /\ inCall # NoCall
    /\ reenterResult("updateRewardRate") = "ok"
    /\ updateRewardRate(caller, pid, rewardPerSecond)

CallsAdvanceTime == inCall = NoCall /\ AdvanceTime

CallsAddPool ==
    /\ inCall = NoCall
    /\ poolLength < MaxPools
    /\ \E rt \in RewardTokens : addPool(Owner, "T1", rt, MaxRate, 0, 0)

CallsUpdatePool == inCall = NoCall /\ UpdatePool

CallsUpdateRewardRate == inCall = NoCall /\ UpdateRewardRate

DepositBegin ==
    \E u \in Users, pid \in PoolIds, amt \in Amounts :
        /\ ValidPid(pid) /\ PoolOf(pid).totalStaked + amt <= MaxTotalStaked
        /\ depositBegin(u, pid, amt)

WithdrawBegin == \E u \in Users, pid \in PoolIds, amt \in Amounts : withdrawBegin(u, pid, amt)

HarvestBegin == \E u \in Users, pid \in PoolIds : harvestBegin(u, pid)

EmergencyWithdrawBegin == \E u \in Users, pid \in PoolIds : emergencyWithdrawBegin(u, pid)

ReenterUpdatePool == \E pid \in PoolIds : reenterUpdatePool(pid)

ReenterUpdateRewardRate ==
    \E caller \in Callers, pid \in PoolIds, r \in Rates :
        reenterUpdateRewardRate(caller, pid, r)

NextCalls ==
    \/ CallsAdvanceTime
    \/ CallsAddPool
    \/ CallsUpdatePool
    \/ CallsUpdateRewardRate
    \/ DepositBegin
    \/ WithdrawBegin
    \/ HarvestBegin
    \/ EmergencyWithdrawBegin
    \/ CallReturns
    \/ ReenterUpdatePool
    \/ ReenterUpdateRewardRate

SpecCalls == Init /\ [][NextCalls]_vars

\* what a callee of the transfer in progress reads: totalStaked is the sum of
\* the positions and the caller's rewardDebt is the checkpoint of its amount
CalleeSeesLedgerUpdated ==
    LET u == inCall.user
        pid == inCall.pid
    IN  /\ PoolOf(pid).totalStaked = SumAmounts(pid, Users)
        /\ userInfo[pid][u].rewardDebt
             = ShareOf(userInfo[pid][u].amount, PoolOf(pid).accRewardPerShare)

\* C23 Effects before interactions: whenever deposit, withdraw, harvest or
\* emergencyWithdraw has an external transfer in progress, the caller's
\* amount, rewardDebt and active flag and the pool's totalStaked already have
\* the values the call leaves (the return of the transfer changes none of
\* them), and the state the callee sees satisfies conservation and the
\* reward-debt checkpoint.
C23_EffectsBeforeInteractions ==
    [][/\ CallReturns =>
             LET u == inCall.user
                 pid == inCall.pid
             IN  /\ userInfo'[pid][u].amount = userInfo[pid][u].amount
                 /\ userInfo'[pid][u].rewardDebt = userInfo[pid][u].rewardDebt
                 /\ userInfo'[pid][u].active = userInfo[pid][u].active
                 /\ poolInfo'[pid + 1].totalStaked = PoolOf(pid).totalStaked
       /\ inCall' # NoCall => CalleeSeesLedgerUpdated']_vars

\* C24 Single writer per pool: while a deposit, withdraw, harvest or
\* emergencyWithdraw on a pool has an external transfer in progress, a call of
\* deposit, withdraw, harvest or emergencyWithdraw is rejected, and no step
\* but the continuation of the call in progress changes the pool or its
\* positions: no updatePool and no updateRewardRate executes on it.
C24_SingleWriter ==
    [][inCall # NoCall =>
          /\ \A fn \in GuardedFunctions :
                reenterResult(fn) = "ReentrancyGuard: reentrant call"
          /\ (\/ poolInfo'[inCall.pid + 1] # PoolOf(inCall.pid)
              \/ userInfo'[inCall.pid] # userInfo[inCall.pid]) => CallReturns]_vars

---------------------------------------------------------------------------
(* Two pools and two users: the owner adds up to MaxRegistryPools pools on  *)
(* the same staking token, and the users stake single units in them.        *)

\* pool 0 pays its reward in a second token, pool 1 in the staking token
IsolationAddPool ==
    /\ poolLength < MaxRegistryPools
    /\ addPool(Owner, "T1", IF poolLength = 0 THEN "T2" ELSE "T1", MaxRate, 0, 0)

\* u1 stakes in both pools, u2 in pool 0
IsolationDeposit ==
    \E u \in Users, pid \in PoolIds :
        /\ ValidPid(pid)
        /\ u = "u2" => pid = 0
        /\ ~userInfo[pid][u].active
        /\ deposit(u, pid, 1)

NextIsolation ==
    \/ AdvanceTime
    \/ IsolationAddPool
    \/ IsolationDeposit
    \/ Withdraw
    \/ Harvest
    \/ EmergencyWithdraw
    \/ UpdatePool
    \/ UpdateRewardRate

SpecIsolation == Init /\ [][NextIsolation]_vars

\* every pool but pid and every position in those pools is as before
OtherPoolsUnchanged(pid) ==
    \A q \in ValidPids \ {pid} :
        /\ poolInfo'[q + 1] = PoolOf(q)
        /\ userInfo'[q] = userInfo[q]

\* C25 Isolation frame: a deposit, withdraw, harvest or emergencyWithdraw step
\* of user u on pool pid leaves every field of every other pool, every
\* position in every other pool and the position of every other user in pool
\* pid unchanged; updatePool and updateRewardRate on pool pid leave every other
\* pool and every position unchanged.  (A failing call reverts and is no step.)
\* Stated by contraposition: a step that changes any of these is not such a call.
C25_IsolationFrame ==
    [][\A pid \in ValidPids :
          /\ \A u \in Users :
                (\/ ~OtherPoolsUnchanged(pid)
                 \/ \E v \in Users \ {u} : userInfo'[pid][v] # userInfo[pid][v])
                    => ~StakingStep(u, pid)
          /\ (~OtherPoolsUnchanged(pid) \/ userInfo' # userInfo)
                => ~(updatePool(pid) \/ \E r \in Rates : updateRewardRate(Owner, pid, r))]_vars

\* u1 is staked in both pools and u2 in pool 0, reward has accrued in both
\* pools, and u1 has been paid in pool 0 only
C25_Witness ==
    /\ poolLength = 2
    /\ userInfo[0]["u1"].active /\ userInfo[1]["u1"].active /\ userInfo[0]["u2"].active
    /\ userInfo[0]["u1"].rewardDebt > 0
    /\ userInfo[1]["u1"].rewardDebt = 0
    /\ userInfo[0]["u2"].rewardDebt = 0
    /\ pendingReward(1, "u1") > 0
    /\ pendingReward(0, "u2") > 0

---------------------------------------------------------------------------
(* The contract with an account kept of the reward emitted and settled *)

InitAudit ==
    /\ InitContract(InitialBalance)
    /\ lenient = {}
    /\ audit = [NoAudit EXCEPT !.on = TRUE]

SpecAudit == InitAudit /\ [][Next]_vars

RECURSIVE SumPending(_, _)
SumPending(pid, S) ==
    IF S = {} THEN 0
    ELSE LET u == CHOOSE x \in S : TRUE
         IN  pendingReward(pid, u) + SumPending(pid, S \ {u})

\* C26 No over-distribution: for every pool, the reward settled for payout by
\* harvest, withdraw and top-up deposit plus the sum of pendingReward over the
\* positions (0 for an inactive one) never exceeds the reward emitted: the sum
\* of elapsed * rewardPerSecond over the intervals updatePool accrued with
\* totalStaked > 0, and over the interval since lastRewardTime that
\* pendingReward accrues for itself.
C26_NoOverDistribution ==
    \A pid \in ValidPids :
        audit.settled[pid] + SumPending(pid, Users)
            <= audit.emitted[pid] + Emission(PoolOf(pid), now)

\* C27 Pool policy immutability: no step changes the stakingToken, rewardToken,
\* minStakeAmount or lockPeriod of a pool that exists, and a step that changes
\* a pool's rewardPerSecond is an updateRewardRate call of the owner on that
\* pool with the new rate as its argument.
C27_PolicyImmutable ==
    [][\A pid \in ValidPids :
          /\ poolInfo'[pid + 1].stakingToken = PoolOf(pid).stakingToken
          /\ poolInfo'[pid + 1].rewardToken = PoolOf(pid).rewardToken
          /\ poolInfo'[pid + 1].minStakeAmount = PoolOf(pid).minStakeAmount
          /\ poolInfo'[pid + 1].lockPeriod = PoolOf(pid).lockPeriod
          /\ poolInfo'[pid + 1].rewardPerSecond # PoolOf(pid).rewardPerSecond =>
                updateRewardRate(Owner, pid, poolInfo'[pid + 1].rewardPerSecond)]_vars

\* a pool with a minimum stake and a lock period holds a stake, and its rate
\* has been lowered to 0 after reward had accrued at the rate it was added with
C27_Witness ==
    /\ poolLength = 1
    /\ PoolOf(0).minStakeAmount = MinStake
    /\ PoolOf(0).lockPeriod = LockPeriod
    /\ PoolOf(0).totalStaked > 0
    /\ PoolOf(0).rewardPerSecond = 0
    /\ PoolOf(0).accRewardPerShare # AccZero

\* C28 Unknown pool: with poolId >= poolLength, updateRewardRate, updatePool,
\* deposit, withdraw, harvest, emergencyWithdraw and pendingReward fail, for
\* every caller and every argument (the owner's and everyone's calls on the
\* array index, a non-owner's updateRewardRate on the owner check before it),
\* and no step is one of these calls, so that none changes the state.
C28_UnknownPool ==
    /\ [](\A pid \in PoolIds : pid >= poolLength =>
             /\ updatePoolResult(pid) = "index out of bounds"
             /\ updateRewardRateResult(Owner, pid) = "index out of bounds"
             /\ \A u \in Users :
                   /\ updateRewardRateResult(u, pid) # "ok"
                   /\ \A amt \in Amounts :
                         /\ depositResult(u, pid, amt) = "index out of bounds"
                         /\ withdrawResult(u, pid, amt) = "index out of bounds"
                   /\ harvestResult(u, pid) = "index out of bounds"
                   /\ emergencyWithdrawResult(u, pid) = "index out of bounds"
                   /\ pendingRewardResult(pid, u) = "index out of bounds")
    /\ [][\A pid \in PoolIds : pid >= poolLength =>
             /\ ~updatePool(pid)
             /\ \A caller \in Callers, r \in Rates : ~updateRewardRate(caller, pid, r)
             /\ \A u \in Users :
                   /\ \A amt \in Amounts : ~deposit(u, pid, amt) /\ ~withdraw(u, pid, amt)
                   /\ ~harvest(u, pid)
                   /\ ~emergencyWithdraw(u, pid)]_vars

\* pool 0 exists, u1 has a stake with reward pending in it, and pool id 1 is
\* refused
C28_Witness ==
    /\ poolLength = 1
    /\ userInfo[0]["u1"].active
    /\ pendingReward(0, "u1") > 0
    /\ harvestResult("u1", 0) = "ok"
    /\ harvestResult("u1", 1) = "index out of bounds"
    /\ pendingRewardResult(1, "u1") = "index out of bounds"

\* the reward a call of user u on pool pid settles at the current time: the
\* position's share of the accumulator accrued to now, less its rewardDebt
SettledNow(u, pid) ==
    LET acc == UpdatedPool(PoolOf(pid), now).accRewardPerShare
    IN  ShareOf(userInfo[pid][u].amount, acc) - userInfo[pid][u].rewardDebt

\* the balances after the contract has paid min(p, reward balance) of the
\* pool's reward token to u when p > 0, and nothing otherwise
AfterSettlement(u, pid, p) ==
    LET t == PoolOf(pid).rewardToken
    IN  IF p > 0 THEN Moved(balance, t, Engine, u, Min(p, balance[t][Engine]))
        ELSE balance

\* C29 Settlement on withdraw and top-up: a withdraw step, and a deposit step
\* on an active position, accrues the pool to now, pays the user
\* min(pending, reward balance) of the reward token when pending > 0, with
\* pending = floor(amount_old * accRewardPerShare / 1e12) - rewardDebt taken
\* after the accrual, and only then moves the stake; a harvest from the same
\* state, when it completes, pays the same amount.
C29_SettlementOnWithdrawAndTopUp ==
    [][\A u \in Users, pid \in ValidPids :
          LET p == SettledNow(u, pid)
              settled == AfterSettlement(u, pid, p)
              st == PoolOf(pid).stakingToken
          IN  /\ \A amt \in Amounts :
                    /\ withdraw(u, pid, amt) =>
                          /\ balance' = Moved(settled, st, Engine, u, amt)
                          /\ poolInfo'[pid + 1].accRewardPerShare
                               = UpdatedPool(PoolOf(pid), now).accRewardPerShare
                    /\ (userInfo[pid][u].active /\ deposit(u, pid, amt)) =>
                          /\ balance' = Moved(settled, st, u, Engine, amt)
                          /\ poolInfo'[pid + 1].accRewardPerShare
                               = UpdatedPool(PoolOf(pid), now).accRewardPerShare
              /\ harvest(u, pid) => balance' = settled]_vars

\* in a pool with a separate reward token u1 has withdrawn its whole stake and
\* u2 has just topped its position up to 2 units, and each has been paid reward
C29_Witness ==
    \E pid \in ValidPids :
        /\ PoolOf(pid).rewardToken # PoolOf(pid).stakingToken
        /\ now > 0
        /\ ~userInfo[pid]["u1"].active
        /\ balance[PoolOf(pid).stakingToken]["u1"] = InitialBalance
        /\ balance[PoolOf(pid).rewardToken]["u1"] > 0
        /\ userInfo[pid]["u2"].amount = 2
        /\ userInfo[pid]["u2"].timestamp = now
        /\ balance[PoolOf(pid).rewardToken]["u2"] > 0

\* the reward a position of the given amount is due for the seconds from now
\* to t in pool record pool: its share of the reward per share accrued over
\* that interval alone
ShareSince(pool, amount, t) ==
    IF t <= now \/ pool.totalStaked = 0 THEN 0
    ELSE ShareOf(amount, RewardPerShare((t - now) * pool.rewardPerSecond, pool.totalStaked))

\* C30 A new stake earns nothing retroactively: in the state a deposit step
\* leaves (first deposit, top-up or re-deposit), pendingReward of the position
\* is 0 at the same timestamp; and a position created by a deposit into an
\* empty record is owed at every later time t, while the pool is left alone,
\* no more than its share of the reward accrued since the deposit, so nothing
\* of what the accumulator held before.
C30_NoRetroactiveReward ==
    [][\A u \in Users, pid \in ValidPids, amt \in Amounts :
          deposit(u, pid, amt) =>
             /\ pendingReward(pid, u)' = 0
             /\ ~userInfo[pid][u].active =>
                   \A t \in now..(now + MaxTime) :
                       PendingRewardAt(pid, u, t)'
                         <= ShareSince(poolInfo'[pid + 1], userInfo'[pid][u].amount, t)]_vars

\* C31 View/mutator agreement: for every active position pendingReward(p, u)
\* at the current time equals the pending amount harvest(p) by u computes after
\* updatePool at that time; a harvest step whose pending amount the reward
\* balance covers moves exactly the amount pendingReward showed before it to
\* the user.  (pendingReward is a view function: it is an operator on the
\* state here and no step of the contract.)
C31_ViewMutatorAgreement ==
    /\ [](\A pid \in ValidPids, u \in Users :
             userInfo[pid][u].active =>
                pendingReward(pid, u)
                  = Pending(userInfo[pid][u], UpdatedPool(PoolOf(pid), now)))
    /\ [][\A pid \in ValidPids, u \in Users :
             harvest(u, pid) =>
                LET rt == PoolOf(pid).rewardToken
                    shown == pendingReward(pid, u)
                IN  /\ shown > 0
                    /\ balance[rt][Engine] >= shown =>
                          /\ balance'[rt][u] = balance[rt][u] + shown
                          /\ balance'[rt][Engine] = balance[rt][Engine] - shown]_vars

\* u1, staked alone in a pool with a separate reward token, has harvested at
\* time 1 the one unit pendingReward showed, which was all the contract held
C31_Witness ==
    \E pid \in ValidPids :
        /\ PoolOf(pid).rewardToken # PoolOf(pid).stakingToken
        /\ now = 1
        /\ userInfo[pid]["u1"] = [amount |-> 1, timestamp |-> 0, rewardDebt |-> 1, active |-> TRUE]
        /\ ~userInfo[pid]["u2"].active
        /\ balance[PoolOf(pid).rewardToken] = [u1 |-> 1, u2 |-> 0, engine |-> 0]
        /\ pendingReward(pid, "u1") = 0

\* C32 Accrual is observationally neutral: updatePool(p) completes for every
\* pool that exists, whoever calls it; it leaves the pool record as it is when
\* now <= lastRewardTime, and applied a second time at the same timestamp it
\* changes nothing more; an updatePool step changes neither totalStaked nor
\* any position nor any balance, and leaves pendingReward(p, u) at that
\* timestamp as it was for every user u.
C32_AccrualNeutral ==
    /\ [](\A pid \in ValidPids :
             LET once == UpdatedPool(PoolOf(pid), now)
             IN  /\ updatePoolResult(pid) = "ok"
                 /\ now <= PoolOf(pid).lastRewardTime => once = PoolOf(pid)
                 /\ UpdatedPool(once, now) = once)
    /\ [][\A pid \in ValidPids :
             updatePool(pid) =>
                /\ poolInfo'[pid + 1].totalStaked = PoolOf(pid).totalStaked
                /\ userInfo' = userInfo
                /\ balance' = balance
                /\ \A u \in Users : pendingReward(pid, u)' = pendingReward(pid, u)]_vars

\* the pool was brought up to time 2 while both users, staked since before,
\* had reward pending that none of them has been paid
C32_Witness ==
    \E pid \in ValidPids :
        /\ now = 2
        /\ PoolOf(pid).lastRewardTime = 2
        /\ PoolOf(pid).rewardToken # PoolOf(pid).stakingToken
        /\ \A u \in Users :
              /\ userInfo[pid][u].active
              /\ userInfo[pid][u].timestamp < 2
              /\ pendingReward(pid, u) > 0
              /\ balance[PoolOf(pid).rewardToken][u] = 0

\* C33 Reward non-interference between participants: a deposit, withdraw,
\* harvest or emergencyWithdraw step of user u on pool pid leaves
\* pendingReward(pid, v) at the time of the step as it was, for every other
\* user v.
C33_RewardNonInterference ==
    [][\A pid \in ValidPids, u \in Users :
          StakingStep(u, pid) =>
             \A v \in Users \ {u} : pendingReward(pid, v)' = pendingReward(pid, v)]_vars

\* the sum of totalStaked over the pools with ids in S whose staking token is t
RECURSIVE StakedIn(_, _)
StakedIn(t, S) ==
    IF S = {} THEN 0
    ELSE LET pid == CHOOSE x \in S : TRUE
         IN  (IF PoolOf(pid).stakingToken = t THEN PoolOf(pid).totalStaked ELSE 0)
               + StakedIn(t, S \ {pid})

\* C34 Principal solvency: in every reachable state and for every token, the
\* contract's balance of the token is at least the sum of totalStaked over the
\* pools staking that token, so that every position can be returned in full.
C34_PrincipalSolvency ==
    \A t \in Tokens : balance[t][Engine] >= StakedIn(t, ValidPids)

\* the divisors of the division updatePool (line 101) and pendingReward (line
\* 209) execute at time t on pool record pool: totalStaked, reached only past
\* the guards of lines 89 and 93, and of line 205
Divisors(pool, t) ==
    IF t <= pool.lastRewardTime THEN {}
    ELSE IF pool.totalStaked = 0 THEN {}
    ELSE {pool.totalStaked}

\* C35 Reward arithmetic never faults: in every reachable state every active
\* position has rewardDebt <= floor(amount * accRewardPerShare / 1e12), for
\* the stored accumulator and for the accumulator accrued to now, so that the
\* subtraction computing pending in deposit, withdraw, harvest and
\* pendingReward does not underflow; and no division by totalStaked is executed
\* with totalStaked = 0.
C35_ArithmeticNeverFaults ==
    \A pid \in ValidPids :
        /\ \A u \in Users :
              userInfo[pid][u].active =>
                 /\ userInfo[pid][u].rewardDebt
                      <= ShareOf(userInfo[pid][u].amount, PoolOf(pid).accRewardPerShare)
                 /\ Pending(userInfo[pid][u], UpdatedPool(PoolOf(pid), now)) >= 0
                 /\ pendingRewardResult(pid, u) = "ok"
        /\ 0 \notin Divisors(PoolOf(pid), now)

\* at time 2 u1 holds a position checkpointed at a positive rewardDebt with
\* nothing pending, and the pool has since been emptied of every other stake
C35_Witness ==
    \E pid \in ValidPids :
        /\ now = 2
        /\ userInfo[pid]["u1"].active
        /\ userInfo[pid]["u1"].rewardDebt > 0
        /\ userInfo[pid]["u1"].rewardDebt
             = ShareOf(userInfo[pid]["u1"].amount, PoolOf(pid).accRewardPerShare)
        /\ ~userInfo[pid]["u2"].active
        /\ balance[PoolOf(pid).stakingToken]["u2"] = InitialBalance
        /\ balance[PoolOf(pid).rewardToken]["u2"] > 0

\* C36 Accrual timestamps are ordered: in every state every pool's
\* lastRewardTime is at most the clock; no step lowers it; and it is at least
\* the time the pool was added, which is the lastRewardTime addPool gave it.
C36_AccrualTimestampsOrdered ==
    /\ [](\A pid \in ValidPids : PoolOf(pid).lastRewardTime <= now)
    /\ [][/\ now' >= now
          /\ \A pid \in ValidPids :
                poolInfo'[pid + 1].lastRewardTime >= PoolOf(pid).lastRewardTime
          /\ \A pid \in PoolIds :
                (~ValidPid(pid) /\ pid < poolLength') =>
                    poolInfo'[pid + 1].lastRewardTime = now]_vars

\* a pool in which nobody has ever staked has lastRewardTime 2 at time 2
C36_Witness ==
    \E pid \in ValidPids :
        /\ now = 2
        /\ PoolOf(pid).lastRewardTime = 2
        /\ PoolOf(pid).totalStaked = 0
        /\ PoolOf(pid).accRewardPerShare = AccZero
        /\ \A u \in Users : ~userInfo[pid][u].active /\ userInfo[pid][u].timestamp = 0

---------------------------------------------------------------------------
(* One pool with a constant stake and a constant rate, accrued at any       *)
(* subset of the seconds up to MaxSplitTime.                                *)

MaxSplitTime == 4
MaxSplitStaked == 7
MaxSplitRate == 3

\* the state after addPool(T1, T2, rate, 0, 0) and u1's deposit(0, staked), both
\* at time 0, for any stake and rate in the bounds
InitSplit ==
    \E staked \in 1..MaxSplitStaked, rate \in 0..MaxSplitRate :
        /\ now = 0
        /\ inCall = NoCall
        /\ audit = NoAudit
        /\ lenient = {}
        /\ poolInfo = <<[stakingToken |-> "T1",
                         rewardToken |-> "T2",
                         rewardPerSecond |-> rate,
                         lastRewardTime |-> 0,
                         accRewardPerShare |-> AccZero,
                         totalStaked |-> staked,
                         minStakeAmount |-> 0,
                         lockPeriod |-> 0]>>
        /\ userInfo = [pid \in PoolIds |-> [u \in Users |->
                          IF pid = 0 /\ u = "u1"
                          THEN [amount |-> staked, timestamp |-> 0, rewardDebt |-> 0,
                                active |-> TRUE]
                          ELSE EmptyStake]]
        /\ balance = [t \in Tokens |-> [h \in Holders |->
                          IF t = "T1" /\ h = Engine THEN staked
                          ELSE IF t = "T1" /\ h = "u1" THEN MaxSplitStaked - staked
                          ELSE 0]]
        /\ ManagerDeployed
        /\ MultipliersDeployed

SplitAdvanceTime == now < MaxSplitTime /\ Tick(1)

NextSplit ==
    \/ SplitAdvanceTime
    \/ UpdatePool

SpecSplit == InitSplit /\ [][NextSplit]_vars

\* C37 Splitting accrual never inflates rewards: with totalStaked > 0 and
\* rewardPerSecond constant, the accRewardPerShare reached by updatePool calls
\* at any intermediate times since time 0 is at most the value of a single
\* updatePool over the whole interval; and from every state reached,
\* updatePool at t1 and then at t2 yields at most what updatePool at t2 alone
\* yields.
C37_SplittingNeverInflates ==
    LET pool == PoolOf(0)
    IN  /\ AccLeq(pool.accRewardPerShare,
                  RewardPerShare(pool.lastRewardTime * pool.rewardPerSecond, pool.totalStaked))
        /\ \A t1 \in now..MaxSplitTime, t2 \in now..MaxSplitTime :
              t1 <= t2 =>
                 AccLeq(UpdatedPool(UpdatedPool(pool, t1), t2).accRewardPerShare,
                        UpdatedPool(pool, t2).accRewardPerShare)

\* three units staked at rate 1, accrued at time 1 and at time 3: the
\* accumulator is 333333333333 + 666666666666, one less than the 1e12 a single
\* accrual over the three seconds gives
C37_Witness ==
    /\ PoolOf(0).totalStaked = 3
    /\ PoolOf(0).rewardPerSecond = 1
    /\ PoolOf(0).lastRewardTime = 3
    /\ PoolOf(0).accRewardPerShare = <<0, 999999, 999999>>
    /\ RewardPerShare(3, 3) = <<1, 0, 0>>

---------------------------------------------------------------------------
(* BaseLiquidityManager (BaseLiquidityManager.sol, lines 14-280): pools of *)
(* two tokens; a provider receives shares for the amounts added and takes  *)
(* the shares' part of the reserves back after a lock.  The tokens revert  *)
(* on a transfer the sender's balance does not cover, and every provider   *)
(* has approved the manager.                                               *)

\* PRECISION is 1e18 in the code; it only scales the ratio rebalancePool
\* compares with 55%, and 1e6 decides that comparison alike for the reserves
\* reached here
PRECISION == 1000000
MAX_ALLOCATION == 10000
Protocols == {"protocol"}

RECURSIVE SqrtLoop(_, _, _)
\* the loop of sqrt: while (z < y) { y = z; z = (x / z + z) / 2; }
SqrtLoop(x, y, z) == IF z < y THEN SqrtLoop(x, z, (x \div z + z) \div 2) ELSE y

sqrt(x) == IF x = 0 THEN 0 ELSE SqrtLoop(x, x, (x + 1) \div 2)

\* amt of token passes from one holder to another
HeldAfter(h, token, from, to, amt) ==
    IF from = to THEN h
    ELSE [h EXCEPT ![token][from] = @ - amt, ![token][to] = @ + amt]

\* the shares addLiquidity mints for (amountA, amountB)
SharesMinted(pool, amountA, amountB) ==
    IF pool.totalShares = 0
    THEN sqrt(amountA * amountB)
    ELSE Min((amountA * pool.totalShares) \div pool.reserveA,
             (amountB * pool.totalShares) \div pool.reserveB)

\* the amounts removeLiquidity returns for shares
AmountsReturned(pool, shares) ==
    <<(shares * pool.reserveA) \div pool.totalShares,
      (shares * pool.reserveB) \div pool.totalShares>>

createPoolResult(caller, tokenA, tokenB, feeRate) ==
    IF caller # Owner THEN "Ownable: caller is not the owner"
    ELSE IF ~(tokenA # ZeroAddress /\ tokenB # ZeroAddress) THEN "Invalid token addresses"
    ELSE IF ~(feeRate <= MAX_FEE_RATE) THEN "Fee rate too high"
    ELSE IF ~(tokenA # tokenB) THEN "Tokens must be different"
    ELSE "ok"

addLiquidityResult(u, pid, amountA, amountB, minShares) ==
    IF paused THEN "Pausable: paused"
    ELSE IF ~(pid < poolCount) THEN "Pool does not exist"
    ELSE IF ~(amountA > 0 /\ amountB > 0) THEN "Amounts must be positive"
    ELSE IF ~pools[pid].active THEN "Pool is not active"
    ELSE IF held[pools[pid].tokenA][u] < amountA \/ held[pools[pid].tokenB][u] < amountB
         THEN "ERC20: transfer amount exceeds balance"
    ELSE IF pools[pid].totalShares # 0 /\ (pools[pid].reserveA = 0 \/ pools[pid].reserveB = 0)
         THEN "Panic(0x12): division by zero"
    ELSE IF ~(SharesMinted(pools[pid], amountA, amountB) >= minShares)
         THEN "Insufficient shares minted"
    ELSE "ok"

removeLiquidityResult(u, pid, shares, minAmountA, minAmountB) ==
    IF ~(pid < poolCount) THEN "Pool does not exist"
    ELSE IF ~(shares > 0) THEN "Shares must be positive"
    ELSE IF ~(userPositions[pid][u].shares >= shares) THEN "Insufficient shares"
    ELSE IF ~(now >= userPositions[pid][u].lockEndTime) THEN "Position still locked"
    ELSE IF pools[pid].totalShares = 0 THEN "Panic(0x12): division by zero"
    ELSE IF ~(AmountsReturned(pools[pid], shares)[1] >= minAmountA
              /\ AmountsReturned(pools[pid], shares)[2] >= minAmountB)
         THEN "Insufficient output amounts"
    ELSE IF pools[pid].totalShares < shares
            \/ totalValueLocked < AmountsReturned(pools[pid], shares)[1]
                                    + AmountsReturned(pools[pid], shares)[2]
         THEN "Panic(0x11): arithmetic underflow"
    ELSE IF held[pools[pid].tokenA][Manager] < AmountsReturned(pools[pid], shares)[1]
            \/ HeldAfter(held, pools[pid].tokenA, Manager, u,
                         AmountsReturned(pools[pid], shares)[1])[pools[pid].tokenB][Manager]
                 < AmountsReturned(pools[pid], shares)[2]
         THEN "ERC20: transfer amount exceeds balance"
    ELSE "ok"

addYieldStrategyResult(caller, pid, protocol, allocation) ==
    IF caller # Owner THEN "Ownable: caller is not the owner"
    ELSE IF ~(pid < poolCount) THEN "Pool does not exist"
    ELSE IF ~(protocol # ZeroAddress) THEN "Invalid protocol address"
    ELSE IF ~(allocation <= MAX_ALLOCATION) THEN "Allocation too high"
    ELSE "ok"

rebalancePoolResult(pid) ==
    IF ~(pid < poolCount) THEN "Pool does not exist"
    ELSE IF ~pools[pid].active THEN "Pool not active"
    ELSE IF pools[pid].reserveA + pools[pid].reserveB = 0 THEN "Panic(0x12): division by zero"
    ELSE "ok"

pauseResult(caller) ==
    IF caller # Owner THEN "Ownable: caller is not the owner"
    ELSE IF paused THEN "Pausable: paused"
    ELSE "ok"

unpauseResult(caller) ==
    IF caller # Owner THEN "Ownable: caller is not the owner"
    ELSE IF ~paused THEN "Pausable: not paused"
    ELSE "ok"

managerEmergencyWithdrawResult(caller, token, amt) ==
    IF caller # Owner THEN "Ownable: caller is not the owner"
    ELSE IF held[token][Manager] < amt THEN "ERC20: transfer amount exceeds balance"
    ELSE "ok"

createPool(caller, tokenA, tokenB, feeRate) ==
    /\ createPoolResult(caller, tokenA, tokenB, feeRate) = "ok"
    /\ poolCount' = poolCount + 1
    /\ pools' = [pools EXCEPT ![poolCount] =
                    [tokenA |-> tokenA, tokenB |-> tokenB, reserveA |-> 0, reserveB |-> 0,
                     totalShares |-> 0, feeRate |-> feeRate, active |-> TRUE,
                     lastUpdate |-> now]]
    /\ UNCHANGED <<now, stakingRewards, rewardMultipliers, userPositions, poolStrategies,
                   totalValueLocked, paused, held, observed>>

addLiquidity(u, pid, amountA, amountB, minShares, lockDuration) ==
    /\ addLiquidityResult(u, pid, amountA, amountB, minShares) = "ok"
    /\ LET pool == pools[pid]
           shares == SharesMinted(pool, amountA, amountB)
       IN /\ held' = HeldAfter(HeldAfter(held, pool.tokenA, u, Manager, amountA),
                               pool.tokenB, u, Manager, amountB)
          /\ pools' = [pools EXCEPT ![pid] =
                          [pool EXCEPT !.reserveA = @ + amountA,
                                       !.reserveB = @ + amountB,
                                       !.totalShares = @ + shares,
                                       !.lastUpdate = now]]
          /\ userPositions' = [userPositions EXCEPT ![pid][u] =
                                  [@ EXCEPT !.shares = @ + shares,
                                            !.lastDeposit = now,
                                            !.lockEndTime = now + lockDuration]]
          /\ totalValueLocked' = totalValueLocked + (amountA + amountB)
          /\ observed' = [observed EXCEPT
                             !.added[pid] = <<@[1] + amountA, @[2] + amountB>>,
                             !.adds[pid] = @ + 1,
                             !.lockedUntil[pid][u] =
                                 IF now + lockDuration > @ THEN now + lockDuration ELSE @]
    /\ UNCHANGED <<now, stakingRewards, rewardMultipliers, poolStrategies, poolCount, paused>>

\* removeLiquidity leaving totalValueLocked as it was
removeLiquidityKeepsValueLocked(u, pid, shares, minAmountA, minAmountB) ==
    /\ removeLiquidityResult(u, pid, shares, minAmountA, minAmountB) = "ok"
    /\ LET pool == pools[pid]
           amountA == AmountsReturned(pool, shares)[1]
           amountB == AmountsReturned(pool, shares)[2]
       IN /\ userPositions' = [userPositions EXCEPT ![pid][u].shares = @ - shares]
          /\ pools' = [pools EXCEPT ![pid] =
                          [pool EXCEPT !.reserveA = @ - amountA,
                                       !.reserveB = @ - amountB,
                                       !.totalShares = @ - shares,
                                       !.lastUpdate = now]]
          /\ held' = HeldAfter(HeldAfter(held, pool.tokenA, Manager, u, amountA),
                               pool.tokenB, Manager, u, amountB)
          /\ observed' = [observed EXCEPT
                             !.removed[pid] = <<@[1] + amountA, @[2] + amountB>>]
    /\ UNCHANGED <<now, stakingRewards, rewardMultipliers, poolStrategies, poolCount, paused,
                   totalValueLocked>>

removeLiquidity(u, pid, shares, minAmountA, minAmountB) ==
    /\ removeLiquidityResult(u, pid, shares, minAmountA, minAmountB) = "ok"
    /\ LET pool == pools[pid]
           amountA == AmountsReturned(pool, shares)[1]
           amountB == AmountsReturned(pool, shares)[2]
       IN /\ userPositions' = [userPositions EXCEPT ![pid][u].shares = @ - shares]
          /\ pools' = [pools EXCEPT ![pid] =
                          [pool EXCEPT !.reserveA = @ - amountA,
                                       !.reserveB = @ - amountB,
                                       !.totalShares = @ - shares,
                                       !.lastUpdate = now]]
          /\ totalValueLocked' = totalValueLocked - (amountA + amountB)
          /\ held' = HeldAfter(HeldAfter(held, pool.tokenA, Manager, u, amountA),
                               pool.tokenB, Manager, u, amountB)
          /\ observed' = [observed EXCEPT
                             !.removed[pid] = <<@[1] + amountA, @[2] + amountB>>]
    /\ UNCHANGED <<now, stakingRewards, rewardMultipliers, poolStrategies, poolCount, paused>>

addYieldStrategy(caller, pid, protocol, allocation, minDeposit, maxDeposit) ==
    /\ addYieldStrategyResult(caller, pid, protocol, allocation) = "ok"
    /\ poolStrategies' = [poolStrategies EXCEPT ![pid] =
                             Append(@, [protocol |-> protocol, allocation |-> allocation,
                                        minDeposit |-> minDeposit, maxDeposit |-> maxDeposit,
                                        active |-> TRUE])]
    /\ UNCHANGED <<now, stakingRewards, rewardMultipliers, pools, userPositions, poolCount,
                   totalValueLocked, paused, held, observed>>

\* the pool's lastUpdate is written when reserveA is more than 55% of the reserves
rebalancePool(pid) ==
    /\ rebalancePoolResult(pid) = "ok"
    /\ LET pool == pools[pid]
           targetRatio == PRECISION \div 2
           currentRatio == (pool.reserveA * PRECISION) \div (pool.reserveA + pool.reserveB)
       IN pools' = IF currentRatio > targetRatio + (PRECISION \div 20)
                   THEN [pools EXCEPT ![pid].lastUpdate = now]
                   ELSE pools
    /\ UNCHANGED <<now, stakingRewards, rewardMultipliers, userPositions, poolStrategies,
                   poolCount, totalValueLocked, paused, held, observed>>

pause(caller) ==
    /\ pauseResult(caller) = "ok"
    /\ paused' = TRUE
    /\ UNCHANGED <<now, stakingRewards, rewardMultipliers, pools, userPositions,
                   poolStrategies, poolCount, totalValueLocked, held, observed>>

unpause(caller) ==
    /\ unpauseResult(caller) = "ok"
    /\ paused' = FALSE
    /\ UNCHANGED <<now, stakingRewards, rewardMultipliers, pools, userPositions,
                   poolStrategies, poolCount, totalValueLocked, held, observed>>

\* the owner takes amt of token out of the manager; no reserve is adjusted
managerEmergencyWithdraw(caller, token, amt) ==
    /\ managerEmergencyWithdrawResult(caller, token, amt) = "ok"
    /\ held' = HeldAfter(held, token, Manager, Owner, amt)
    /\ UNCHANGED <<now, stakingRewards, rewardMultipliers, pools, userPositions,
                   poolStrategies, poolCount, totalValueLocked, paused, observed>>

(* The manager's calls, with their inputs drawn from the bounded sets *)

FeeRates == {30}
\* the token pairs createPool is called with: one it accepts, two it refuses
PoolTokens == {<<"T1", "T2">>, <<"T1", "T1">>, <<ZeroAddress, "T2">>}
MinShares == {0, 2}
MinAmounts == {0, 1}
ShareAmounts == 0..(LiquidityBalance * MaxAdds)

RECURSIVE SumAdds(_)
\* the number of addLiquidity calls made so far, over the pools in S
SumAdds(S) ==
    IF S = {} THEN 0
    ELSE LET pid == CHOOSE x \in S : TRUE IN observed.adds[pid] + SumAdds(S \ {pid})

\* the owner has not yet paused the manager, added a strategy or taken tokens
\* out: a run holds at most one of the three
OwnerIdle ==
    /\ ~paused
    /\ \A pid \in ManagerPoolIds : poolStrategies[pid] = <<>>
    /\ \A token \in Tokens : held[token][Owner] = 0

LiquidityAdvanceTime == now < MaxTime /\ Tick(1)

\* pools are created before time passes
CreatePool ==
    /\ poolCount < MaxManagerPools
    /\ now = 0
    /\ \E caller \in Callers, tokens \in PoolTokens, feeRate \in FeeRates :
           createPool(caller, tokens[1], tokens[2], feeRate)

AddLiquidity ==
    \E u \in Users, pid \in ManagerPoolIds, amountA \in LiquidityAmounts,
       amountB \in LiquidityAmounts, minShares \in MinShares, lockDuration \in LockDurations :
        /\ SumAdds(ManagerPoolIds) < MaxAdds
        /\ addLiquidity(u, pid, amountA, amountB, minShares, lockDuration)

RemoveLiquidity ==
    \E u \in Users, pid \in ManagerPoolIds, shares \in ShareAmounts,
       minAmountA \in MinAmounts, minAmountB \in MinAmounts :
        removeLiquidity(u, pid, shares, minAmountA, minAmountB)

AddYieldStrategy ==
    \E caller \in Callers, pid \in ManagerPoolIds, protocol \in Protocols :
        /\ OwnerIdle
        /\ addYieldStrategy(caller, pid, protocol, MAX_ALLOCATION, 0, LiquidityBalance)

RebalancePool == \E pid \in ManagerPoolIds : rebalancePool(pid)

Pause == OwnerIdle /\ \E caller \in Callers : pause(caller)

Unpause == \E caller \in Callers : unpause(caller)

ManagerEmergencyWithdraw ==
    \E caller \in Callers, token \in Tokens :
        /\ OwnerIdle
        /\ managerEmergencyWithdraw(caller, token, 1)

NextLiquidity ==
    \/ LiquidityAdvanceTime
    \/ CreatePool
    \/ AddLiquidity
    \/ RemoveLiquidity
    \/ AddYieldStrategy
    \/ RebalancePool
    \/ Pause
    \/ Unpause
    \/ ManagerEmergencyWithdraw

SpecLiquidity == Init /\ [][NextLiquidity]_vars

\* C38 (BaseLiquidityManager lock): shares minted by addLiquidity at time t
\* with lock duration d cannot be removed before t + d.  observed.lockedUntil
\* is the latest t + d over the user's addLiquidity calls on the pool; while
\* the time is earlier, every removeLiquidity call of the user on the pool
\* that passes the checks made before the lock's (existing pool, positive
\* shares, no more than the position holds) fails with "Position still
\* locked", whatever addLiquidity calls the user made in between.
C38_LockHolds ==
    \A u \in Users, pid \in ManagerPoolIds, shares \in ShareAmounts,
       minAmountA \in MinAmounts, minAmountB \in MinAmounts :
        (/\ pid < poolCount
         /\ shares > 0
         /\ userPositions[pid][u].shares >= shares
         /\ now < observed.lockedUntil[pid][u])
        => removeLiquidityResult(u, pid, shares, minAmountA, minAmountB)
               = "Position still locked"

RECURSIVE SumShares(_, _)
\* the shares the users of S hold in pool pid
SumShares(pid, S) ==
    IF S = {} THEN 0
    ELSE LET u == CHOOSE x \in S : TRUE
         IN userPositions[pid][u].shares + SumShares(pid, S \ {u})

RECURSIVE SumReserves(_)
\* reserveA + reserveB over the pools of S
SumReserves(S) ==
    IF S = {} THEN 0
    ELSE LET pid == CHOOSE x \in S : TRUE
         IN pools[pid].reserveA + pools[pid].reserveB + SumReserves(S \ {pid})

\* the three equations between the manager's totals and what they total
AggregatesAgree ==
    /\ \A pid \in ManagerPoolIds :
           /\ pools[pid].totalShares = SumShares(pid, Users)
           /\ pools[pid].reserveA = observed.added[pid][1] - observed.removed[pid][1]
           /\ pools[pid].reserveB = observed.added[pid][2] - observed.removed[pid][2]
    /\ totalValueLocked = SumReserves(ManagerPoolIds)

\* u's removeLiquidity step that takes the last shares out of pool pid pays u
\* the whole reserves, and with them everything added to the pool has been
\* removed; when the pool saw one addLiquidity and no removal before, u
\* receives exactly the (a, b) added
LastSharesTakeAll(u, pid) ==
    (/\ userPositions'[pid][u].shares < userPositions[pid][u].shares
     /\ pools'[pid].totalShares = 0)
    => /\ held'[pools[pid].tokenA][u] = held[pools[pid].tokenA][u] + pools[pid].reserveA
       /\ held'[pools[pid].tokenB][u] = held[pools[pid].tokenB][u] + pools[pid].reserveB
       /\ observed'.removed[pid] = observed.added[pid]
       /\ (observed.adds[pid] = 1 /\ observed.removed[pid] = <<0, 0>>)
          => /\ held'[pools[pid].tokenA][u]
                    = held[pools[pid].tokenA][u] + observed.added[pid][1]
             /\ held'[pools[pid].tokenB][u]
                    = held[pools[pid].tokenB][u] + observed.added[pid][2]

\* C39 (BaseLiquidityManager aggregate accounting): in every reachable state,
\* for every pool totalShares is the sum of the users' shares, reserveA and
\* reserveB are the amounts added minus the amounts removed, and
\* totalValueLocked is the sum over the pools of reserveA + reserveB; a sole
\* provider who added (a, b) and removes all the shares receives exactly (a, b).
C39_AggregateAccounting ==
    /\ []AggregatesAgree
    /\ [][\A u \in Users, pid \in ManagerPoolIds : LastSharesTakeAll(u, pid)]_vars

\* a sole provider added (2, 1) to one pool and has taken exactly that out
\* again, while another pool holds a provider's reserves
C39_Witness ==
    \E pid \in ManagerPoolIds, other \in ManagerPoolIds :
        /\ pid # other
        /\ observed.adds[pid] = 1
        /\ observed.added[pid] = <<2, 1>>
        /\ observed.removed[pid] = <<2, 1>>
        /\ pools[pid].totalShares = 0
        /\ pools[other].totalShares > 0

---------------------------------------------------------------------------
(* RewardMultipliers (BaseLiquidityManager.sol, lines 294-624): a table of *)
(* multipliers per contribution type, a bonus for staked ether and a       *)
(* reputation score per user, combined by calculateMultiplier.             *)

QualityScores == {100, 101}
NewMultipliers == {MIN_MULTIPLIER - 1, MIN_MULTIPLIER, MAX_MULTIPLIER, MAX_MULTIPLIER + 1}
NewQualityBonuses == {MaxQualityBonus, MaxQualityBonus + 1}
StakeAmounts == {0, 1, LargeStake}
StakeDurations == {ThirtyDays - 1, ThirtyDays, NinetyDays}
ActedTypes == {"COMMIT", "SECURITY_AUDIT"}

updateMultiplierResult(caller, newMultiplier) ==
    IF caller # Owner THEN "Ownable: caller is not the owner"
    ELSE IF ~(newMultiplier >= MIN_MULTIPLIER /\ newMultiplier <= MAX_MULTIPLIER)
         THEN "Invalid multiplier range"
    ELSE "ok"

updateQualityBonusResult(caller, qualityBonus) ==
    IF caller # Owner THEN "Ownable: caller is not the owner"
    ELSE IF ~(qualityBonus <= MaxQualityBonus) THEN "Quality bonus too high"
    ELSE "ok"

calculateMultiplierResult(contributionType, qualityScore) ==
    IF ~multipliers[contributionType].isActive THEN "Multiplier not active"
    ELSE IF ~(qualityScore <= 100) THEN "Invalid quality score"
    ELSE "ok"

\* the sum calculateMultiplier forms before it bounds it
TotalMultiplier(user, contributionType, qualityScore, isTimely) ==
    LET mult == multipliers[contributionType]
        quality == IF qualityScore >= QUALITY_THRESHOLD
                   THEN (mult.qualityBonus * qualityScore) \div 100
                   ELSE 0
        time == IF isTimely THEN mult.timeBonus ELSE 0
        staking == IF stakingMultipliers[user].stakingAmount > 0
                   THEN stakingMultipliers[user].multiplierBonus
                   ELSE 0
        reputationBonus == reputationScores[user] \div 10
    IN mult.baseMultiplier + quality + time + staking + reputationBonus

\* calculateMultiplier returning the sum as it is
calculateMultiplierUnbounded(user, contributionType, qualityScore, isTimely) ==
    TotalMultiplier(user, contributionType, qualityScore, isTimely)

calculateMultiplier(user, contributionType, qualityScore, isTimely) ==
    LET totalMultiplier == TotalMultiplier(user, contributionType, qualityScore, isTimely)
    IN IF totalMultiplier > MAX_MULTIPLIER THEN MAX_MULTIPLIER
       ELSE IF totalMultiplier < MIN_MULTIPLIER THEN MIN_MULTIPLIER
       ELSE totalMultiplier

recordContributionResult(caller, contributionType, qualityScore) ==
    IF caller # Owner THEN "Ownable: caller is not the owner"
    ELSE calculateMultiplierResult(contributionType, qualityScore)

\* _updateReputationScore's increase
ReputationIncrease(contributionType, qualityScore) ==
    IF contributionType \in {"SECURITY_AUDIT", "DEPLOYMENT"}
    THEN (qualityScore \div 10) * 2
    ELSE qualityScore \div 10

\* the bonus stakeForMultiplier computes
MultiplierBonus(amount, duration) ==
    LET multiplierBonus == (amount \div OneEther) * 5
    IN IF duration >= NinetyDays THEN (multiplierBonus * 150) \div 100
       ELSE IF duration >= SixtyDays THEN (multiplierBonus * 125) \div 100
       ELSE multiplierBonus

\* value is the ether sent with the call
stakeForMultiplierResult(u, amount, duration, value) ==
    IF ether[u] < value THEN "insufficient funds"
    ELSE IF ~(amount > 0) THEN "Amount must be greater than 0"
    ELSE IF ~(duration >= ThirtyDays) THEN "Minimum staking duration is 30 days"
    ELSE IF ~(value = amount) THEN "Incorrect ETH amount"
    ELSE "ok"

withdrawStakeResult(u) ==
    IF ~(stakingMultipliers[u].stakingAmount > 0) THEN "No staked amount"
    ELSE IF ~(now >= stakingMultipliers[u].unlockTime) THEN "Staking period not completed"
    ELSE IF ether[Multipliers] < stakingMultipliers[u].stakingAmount THEN "transfer failed"
    ELSE "ok"

toggleMultiplierResult(caller) ==
    IF caller # Owner THEN "Ownable: caller is not the owner" ELSE "ok"

multipliersEmergencyWithdrawResult(caller) ==
    IF caller # Owner THEN "Ownable: caller is not the owner" ELSE "ok"

updateMultiplier(caller, contributionType, newMultiplier) ==
    /\ updateMultiplierResult(caller, newMultiplier) = "ok"
    /\ multipliers' = [multipliers EXCEPT ![contributionType].baseMultiplier = newMultiplier,
                                          ![contributionType].lastUpdated = now]
    /\ UNCHANGED <<now, stakingRewards, liquidityManager, stakingMultipliers,
                   reputationScores, userContributions, ether>>

updateQualityBonus(caller, contributionType, qualityBonus) ==
    /\ updateQualityBonusResult(caller, qualityBonus) = "ok"
    /\ multipliers' = [multipliers EXCEPT ![contributionType].qualityBonus = qualityBonus,
                                          ![contributionType].lastUpdated = now]
    /\ UNCHANGED <<now, stakingRewards, liquidityManager, stakingMultipliers,
                   reputationScores, userContributions, ether>>

recordContribution(caller, user, contributionType, qualityScore, isTimely) ==
    /\ recordContributionResult(caller, contributionType, qualityScore) = "ok"
    /\ userContributions' = [userContributions EXCEPT ![user][contributionType] = @ + 1]
    /\ reputationScores' = [reputationScores EXCEPT ![user] =
                               @ + ReputationIncrease(contributionType, qualityScore)]
    /\ UNCHANGED <<now, stakingRewards, liquidityManager, multipliers, stakingMultipliers,
                   ether>>

stakeForMultiplier(u, amount, duration, value) ==
    /\ stakeForMultiplierResult(u, amount, duration, value) = "ok"
    /\ stakingMultipliers' = [stakingMultipliers EXCEPT ![u] =
                                 [stakingAmount |-> @.stakingAmount + amount,
                                  multiplierBonus |-> MultiplierBonus(amount, duration),
                                  stakingDuration |-> duration,
                                  unlockTime |-> now + duration]]
    /\ ether' = [ether EXCEPT ![u] = @ - value, ![Multipliers] = @ + value]
    /\ UNCHANGED <<now, stakingRewards, liquidityManager, multipliers, reputationScores,
                   userContributions>>

withdrawStake(u) ==
    /\ withdrawStakeResult(u) = "ok"
    /\ stakingMultipliers' = [stakingMultipliers EXCEPT ![u] = NoStaking]
    /\ ether' = [ether EXCEPT ![u] = @ + stakingMultipliers[u].stakingAmount,
                              ![Multipliers] = @ - stakingMultipliers[u].stakingAmount]
    /\ UNCHANGED <<now, stakingRewards, liquidityManager, multipliers, reputationScores,
                   userContributions>>

toggleMultiplier(caller, contributionType, isActive) ==
    /\ toggleMultiplierResult(caller) = "ok"
    /\ multipliers' = [multipliers EXCEPT ![contributionType].isActive = isActive,
                                          ![contributionType].lastUpdated = now]
    /\ UNCHANGED <<now, stakingRewards, liquidityManager, stakingMultipliers,
                   reputationScores, userContributions, ether>>

\* the owner takes the contract's whole ether balance
multipliersEmergencyWithdraw(caller) ==
    /\ multipliersEmergencyWithdrawResult(caller) = "ok"
    /\ ether' = [ether EXCEPT ![Owner] = @ + ether[Multipliers], ![Multipliers] = 0]
    /\ UNCHANGED <<now, stakingRewards, liquidityManager, multipliers, stakingMultipliers,
                   reputationScores, userContributions>>

(* The calls, with their inputs drawn from the bounded sets *)

RECURSIVE SumContributions(_)
\* the contributions recorded, over the pairs of a user and a type in S
SumContributions(S) ==
    IF S = {} THEN 0
    ELSE LET p == CHOOSE x \in S : TRUE
         IN userContributions[p[1]][p[2]] + SumContributions(S \ {p})

\* nobody but u has ether staked, and u less than one ether: a run has one
\* staker at a time, who adds to a stake at most once
SoleStaker(u) ==
    /\ \A other \in Users \ {u} : stakingMultipliers[other].stakingAmount = 0
    /\ stakingMultipliers[u].stakingAmount < OneEther

\* no entry of the table but c's has been edited: a run edits one type
SoleEdited(c) ==
    \A other \in ContributionType \ {c} : multipliers[other] = InitialMultipliers(0)[other]

MultiplierAdvanceTime == now < MaxMultiplierTime /\ Tick(ThirtyDays)

\* the owner edits the table before time passes, and one of its entries
UpdateMultiplier ==
    \E caller \in Callers, c \in ActedTypes, newMultiplier \in NewMultipliers :
        now = 0 /\ SoleEdited(c) /\ updateMultiplier(caller, c, newMultiplier)

UpdateQualityBonus ==
    \E caller \in Callers, c \in ActedTypes, qualityBonus \in NewQualityBonuses :
        now = 0 /\ SoleEdited(c) /\ updateQualityBonus(caller, c, qualityBonus)

RecordContribution ==
    \E caller \in Callers, u \in Users, c \in ActedTypes, qualityScore \in QualityScores,
       isTimely \in BOOLEAN :
        /\ SumContributions(Users \X ActedTypes) < MaxContributions
        /\ recordContribution(caller, u, c, qualityScore, isTimely)

StakeForMultiplier ==
    \E u \in Users, amount \in StakeAmounts, duration \in StakeDurations,
       value \in StakeAmounts :
        SoleStaker(u) /\ stakeForMultiplier(u, amount, duration, value)

WithdrawStake == \E u \in Users : withdrawStake(u)

ToggleMultiplier ==
    \E caller \in Callers, c \in ActedTypes, isActive \in BOOLEAN :
        now = 0 /\ SoleEdited(c) /\ toggleMultiplier(caller, c, isActive)

MultipliersEmergencyWithdraw ==
    \E caller \in Callers : ether[Multipliers] > 0 /\ multipliersEmergencyWithdraw(caller)

NextMultipliers ==
    \/ MultiplierAdvanceTime
    \/ UpdateMultiplier
    \/ UpdateQualityBonus
    \/ RecordContribution
    \/ StakeForMultiplier
    \/ WithdrawStake
    \/ ToggleMultiplier
    \/ MultipliersEmergencyWithdraw

SpecMultipliers == Init /\ [][NextMultipliers]_vars

\* C40 (RewardMultipliers bounds): after any sequence of updateMultiplier,
\* updateQualityBonus, toggleMultiplier, recordContribution, stakeForMultiplier
\* and withdrawStake calls, every stored baseMultiplier lies in [50, 500], and
\* calculateMultiplier, whenever it does not revert, returns a value in
\* [MIN_MULTIPLIER, MAX_MULTIPLIER] for every user, contribution type, quality
\* score in 0..100 and timeliness flag.
C40_MultiplierBounds ==
    /\ \A c \in ContributionType :
           /\ multipliers[c].baseMultiplier >= 50
           /\ multipliers[c].baseMultiplier <= 500
    /\ \A u \in Users, c \in ContributionType, qualityScore \in 0..100, isTimely \in BOOLEAN :
           calculateMultiplierResult(c, qualityScore) = "ok"
           => calculateMultiplier(u, c, qualityScore, isTimely)
                  \in MIN_MULTIPLIER..MAX_MULTIPLIER

\* the owner has set a base multiplier to the minimum, and a user with a
\* stake's bonus is returned the maximum where the sum of the parts exceeds it
C40_Witness ==
    /\ \E c \in ContributionType :
           /\ multipliers[c].baseMultiplier = MIN_MULTIPLIER
           /\ InitialMultipliers(0)[c].baseMultiplier # MIN_MULTIPLIER
    /\ \E u \in Users, c \in ContributionType :
           /\ stakingMultipliers[u].multiplierBonus > 0
           /\ calculateMultiplierResult(c, 100) = "ok"
           /\ TotalMultiplier(u, c, 100, TRUE) > MAX_MULTIPLIER
           /\ calculateMultiplier(u, c, 100, TRUE) = MAX_MULTIPLIER

====
